---- MODULE Spec2Model ----
(***************************************************************************)
(* Model of the multi-agent stock screening service: symbol validation,    *)
(* the five task agents, the parallel coordinator (orchestrating_agent),   *)
(* the response formatter, the streaming driver and the SSE endpoint.      *)
(*                                                                         *)
(* Python values are modelled as follows.                                  *)
(*   - an optional value is a sequence of length 0 (None) or 1 (<<v>>);    *)
(*   - a dict is a function whose DOMAIN is the set of keys present, each  *)
(*     value being an optional value, so that a missing key and a key      *)
(*     holding None are different things, as they are for dict.get;        *)
(*   - a str that the code inspects (the symbol) is a sequence of          *)
(*     one-character strings; other texts are sequences of tokens.         *)
(***************************************************************************)
EXTENDS Integers, Sequences, FiniteSets, TLC

VARIABLES
    mode,         \* delivery mode of the request: "none", "stream", "parallel"
    pc,           \* position of the request handler
    req,          \* the symbol the caller sent (optional character sequence)
    symbol,       \* req.symbol.upper(), once the request was accepted
    state,        \* the GraphState dict (root_node's, then the driver's)
    results,      \* parallel mode: agent name -> state returned by its task
    final_state,  \* parallel mode: the accumulator of orchestrating_agent
    dpc,          \* streaming driver: the yield the generator is suspended at
    idx,          \* streaming driver: loop index i of the agent loop
    pending,      \* event yielded by the driver, not yet seen by the endpoint
    log,          \* driver yields and agent invocations, in program order
    sent,         \* events the endpoint wrote to the caller
    outcome,      \* how the request ended
    response,     \* the StockResponse, once format_response returned one
    prov,         \* what the providers answered to this request
    arg,          \* argument of the function under test (function specs)
    ret           \* its result (function specs)

vars == <<mode, pc, req, symbol, state, results, final_state, dpc, idx,
          pending, log, sent, outcome, response, prov, arg, ret>>

requestVars == <<mode, pc, req, symbol, state, results, final_state, dpc, idx,
                 pending, log, sent, outcome, response, prov>>

-----------------------------------------------------------------------------
(* Bounds of the model *)

\* longest input string given to validate_stock_symbol
MaxSymLen == 6
\* largest price a price source answers with (the smallest is -1)
MaxPrice == 1
\* number of agent results merged in the merge specification
MaxMerges == 3

\* longest source chain (primary and fallbacks) given to execute_with_fallback
MaxSources == 3

\* largest attempt budget given to the retry wrapper
MaxAttempts == 3

\* largest number of articles the two news sources return together
MaxArticles == 3

-----------------------------------------------------------------------------
(* Optional values and dicts *)

None == <<>>
Some(v) == <<v>>
IsNone(o) == Len(o) = 0
Val(o) == o[1]

EmptyDict == [k \in {} |-> None]

\* d.get(k)
DictGet(d, k) == IF k \in DOMAIN d THEN d[k] ELSE None

\* d.get(k, dflt)
DictGetDefault(d, k, dflt) == IF k \in DOMAIN d THEN d[k] ELSE Some(dflt)

\* d.update(e), and d[k] = v for a one-key e
DictUpdate(d, e) ==
    [k \in (DOMAIN d) \cup (DOMAIN e) |-> IF k \in DOMAIN e THEN e[k] ELSE d[k]]

DictSet(d, k, v) ==
    [j \in (DOMAIN d) \cup {k} |-> IF j = k THEN v ELSE d[j]]

\* the elements of a list
Range(s) == {s[i] : i \in 1..Len(s)}

BoundedSeq(S, n) == UNION {[1..k -> S] : k \in 0..n}

-----------------------------------------------------------------------------
(* Symbol validation *)

UpperLetters == {"A", "B"}
LowerLetters == {"a", "b"}
Whitespace == {" "}

\* str.upper() on one character
UpperChar(c) == IF c = "a" THEN "A" ELSE IF c = "b" THEN "B" ELSE c

\* str.upper()
Upper(s) == [i \in 1..Len(s) |-> UpperChar(s[i])]

RECURSIVE LStrip(_)
LStrip(s) ==
    IF Len(s) > 0 /\ Head(s) \in Whitespace THEN LStrip(Tail(s)) ELSE s

RECURSIVE RStrip(_)
RStrip(s) ==
    IF Len(s) > 0 /\ s[Len(s)] \in Whitespace
    THEN RStrip(SubSeq(s, 1, Len(s) - 1))
    ELSE s

\* str.strip()
Strip(s) == RStrip(LStrip(s))

Ok == [ok |-> TRUE, error |-> "none"]
Raise(e) == [ok |-> FALSE, error |-> e]

\* the mutant forgets the normalisation and validates the text as sent
ValidateNoNormalise(sym) ==
    IF IsNone(sym) \/ Len(Val(sym)) = 0
    THEN Raise("InvalidSymbolError:empty")
    ELSE LET s == Val(sym) IN
         IF Len(s) < 1 \/ Len(s) > 5
         THEN Raise("InvalidSymbolError:length")
         ELSE IF \E i \in 1..Len(s) : s[i] \notin UpperLetters \cup {"."}
         THEN Raise("InvalidSymbolError:characters")
         ELSE IF s[1] = "." \/ s[Len(s)] = "."
         THEN Raise("InvalidSymbolError:dot at an end")
         ELSE IF \E i \in 1..(Len(s) - 1) : s[i] = "." /\ s[i + 1] = "."
         THEN Raise("InvalidSymbolError:consecutive dots")
         ELSE Ok

\* validate_stock_symbol(symbol); sym is None (not a str) or Some(text)
validate_stock_symbol(sym) ==
    IF IsNone(sym) \/ Len(Val(sym)) = 0
    THEN Raise("InvalidSymbolError:empty")
    ELSE LET s == Upper(Strip(Val(sym))) IN
         IF Len(s) < 1 \/ Len(s) > 5
         THEN Raise("InvalidSymbolError:length")
         ELSE IF \E i \in 1..Len(s) : s[i] \notin UpperLetters \cup {"."}
         THEN Raise("InvalidSymbolError:characters")
         ELSE IF s[1] = "." \/ s[Len(s)] = "."
         THEN Raise("InvalidSymbolError:dot at an end")
         ELSE IF \E i \in 1..(Len(s) - 1) : s[i] = "." /\ s[i + 1] = "."
         THEN Raise("InvalidSymbolError:consecutive dots")
         ELSE Ok

\* StockRequest.symbol: a required str matching ^[A-Z]{1,5}$
StockRequestValid(sym) ==
    /\ ~IsNone(sym)
    /\ Len(Val(sym)) \in 1..5
    /\ \A i \in 1..Len(Val(sym)) : Val(sym)[i] \in UpperLetters

-----------------------------------------------------------------------------
(* Texts (error messages, names) are sequences of tokens; joining is \o *)

RECURSIVE Join(_, _)
\* sep.join(texts)
Join(texts, sep) ==
    IF Len(texts) = 0 THEN <<>>
    ELSE IF Len(texts) = 1 THEN texts[1]
    ELSE texts[1] \o sep \o Join(Tail(texts), sep)

RECURSIVE ListOfSet(_)
\* list(set(...)): the distinct elements, in the iteration order of the set,
\* which no code of the repository depends on; the model fixes one order
ListOfSet(S) ==
    IF S = {} THEN <<>>
    ELSE LET x == CHOOSE y \in S : TRUE IN <<x>> \o ListOfSet(S \ {x})

-----------------------------------------------------------------------------
(* Provider adapters and the fallback executor *)

\* result of an awaited call: a value, or a raised exception with its str()
Returned(v) == [ok |-> TRUE, value |-> Some(v), error |-> <<>>]
ReturnedNone == [ok |-> TRUE, value |-> None, error |-> <<>>]
Raised(msg) == [ok |-> FALSE, value |-> None, error |-> msg]

PriceValues == (-1)..MaxPrice

\* what a price provider answers: a quote, or a failure of any kind
PriceAnswers == {[ok |-> FALSE, price |-> 0]} \cup {[ok |-> TRUE, price |-> p] : p \in PriceValues}

\* the dict a price adapter builds from a quote
PriceData(p, source) ==
    [price |-> Some(p), change |-> Some(0), change_percent |-> Some(0),
     volume |-> Some(0), currency |-> Some("USD"), source |-> Some(source)]

\* fetch_price_alpha under handle_api_errors: every exception leaves as an
\* exception whose text starts with "Error in fetch_price_alpha"
fetch_price_alpha(answer) ==
    IF answer.ok THEN Returned(PriceData(answer.price, "alpha_vantage"))
    ELSE Raised(<<"Error in fetch_price_alpha: ", "no quote">>)

\* fetch_price_yfinance under handle_api_errors
fetch_price_yfinance(answer) ==
    IF answer.ok THEN Returned(PriceData(answer.price, "yfinance"))
    ELSE Raised(<<"Error in fetch_price_yfinance: ", "no quote">>)

RECURSIVE FallbackLoop(_, _, _, _)
\* the part of execute_with_fallback after the call of source number n
\* (1 is the primary): calls is the list of the outcomes of the sources in
\* chain order, errors the messages gathered so far
FallbackLoop(data_type, calls, n, errors) ==
    IF n > Len(calls)
    THEN Raised(<<"All data sources failed for ", data_type, ": ">>
                \o Join(errors, <<"; ">>))
    ELSE LET r == calls[n] IN
         IF r.ok /\ ~IsNone(r.value) THEN r
         ELSE IF r.ok THEN FallbackLoop(data_type, calls, n + 1, errors)
         ELSE FallbackLoop(data_type, calls, n + 1,
                Append(errors,
                       (IF n = 1 THEN <<"Primary source failed: ">>
                        ELSE <<"Fallback ", ToString(n - 1), " failed: ">>) \o r.error))

\* the mutant returns the primary's outcome and never tries a fallback
ExecutePrimaryOnly(data_type, calls) == FallbackLoop(data_type, <<calls[1]>>, 1, <<>>)

\* FallbackManager.execute_with_fallback(data_type, symbol, primary, fallbacks)
execute_with_fallback(data_type, calls) == FallbackLoop(data_type, calls, 1, <<>>)

\* fetch_price_with_fallback: Alpha Vantage, then Yahoo Finance
fetch_price_with_fallback(alpha, yf) ==
    execute_with_fallback("price", <<fetch_price_alpha(alpha), fetch_price_yfinance(yf)>>)

\* fetch_current_price
fetch_current_price(sym, alpha, yf) ==
    LET v == validate_stock_symbol(Some(sym)) IN
    IF ~v.ok THEN Raised(<<v.error>>) ELSE fetch_price_with_fallback(alpha, yf)

\* a FinancialMetrics object: the names of the fields that are not None
FinancialMetrics(fields) == [type |-> "FinancialMetrics", fields |-> fields]

\* the [] that format_response takes for a missing key
PyEmptyList == [type |-> "list", fields |-> {}]

\* what the fundamentals provider answers: figures, or nothing usable
FundamentalsAnswers == {"data", "error"}

\* fetch_fundamentals_yf: every failure ends in empty metrics, never in a raise
fetch_fundamentals_yf(answer) ==
    IF answer = "data" THEN Returned(FinancialMetrics({"market_cap", "pe_ratio"}))
    ELSE Returned(FinancialMetrics({}))

\* fetch_financial_metrics
fetch_financial_metrics(sym, answer) ==
    LET v == validate_stock_symbol(Some(sym)) IN
    IF ~v.ok THEN Raised(<<v.error>>) ELSE fetch_fundamentals_yf(answer)

AnalystRating(firm, rating) == [firm |-> firm, rating |-> rating]
EarningsData(quarter) == [quarter |-> quarter]

AnalystAnswers == {"data", "error"}

\* fetch_analyst_ratings_finnhub: ratings, or [] on any failure
fetch_analyst_ratings_finnhub(answer) ==
    IF answer = "data"
    THEN Returned(<<AnalystRating(<<"Consensus">>, <<"Buy: 1, Hold: 0, Sell: 0">>)>>)
    ELSE Returned(<<>>)

\* fetch_analyst_ratings
fetch_analyst_ratings(sym, answer) ==
    LET v == validate_stock_symbol(Some(sym)) IN
    IF ~v.ok THEN Raised(<<v.error>>) ELSE fetch_analyst_ratings_finnhub(answer)

\* fetch_earnings_data_yf: entries, or [] on any failure
fetch_earnings_data_yf(answer) ==
    IF answer = "data" THEN Returned(<<EarningsData("TTM")>>) ELSE Returned(<<>>)

\* fetch_earnings_data
fetch_earnings_data(sym, answer) ==
    LET v == validate_stock_symbol(Some(sym)) IN
    IF ~v.ok THEN Raised(<<v.error>>) ELSE fetch_earnings_data_yf(answer)

SentimentSummary(score, confidence, pos, neg, neu, text) ==
    [type |-> "SentimentSummary", overall_score |-> score, confidence |-> confidence,
     positive_count |-> pos, negative_count |-> neg, neutral_count |-> neu,
     summary_text |-> text]

SentimentItem(source, label) == [source |-> source, sentiment_score |-> label]

\* what the article providers answer: articles, nothing usable, or an article
\* whose title is null
SentimentAnswers == {"articles", "error", "null_title"}

\* fetch_comprehensive_sentiment: both article fetches swallow their failures;
\* with no article the result is no item and a neutral summary.  The loop that
\* removes duplicates is outside every try: re.sub on a null title raises
fetch_comprehensive_sentiment(answer) ==
    IF answer = "null_title"
    THEN Raised(<<"expected string or bytes-like object, got 'NoneType'">>)
    ELSE IF answer = "articles"
    THEN Returned([items |-> <<SentimentItem("newsapi", "positive")>>,
                   summary |-> SentimentSummary("positive", 1, 1, 0, 0,
                                                <<"Based on 1 articles: ">>)])
    ELSE Returned([items |-> <<>>,
                   summary |-> SentimentSummary("neutral", 0, 0, 0, 0,
                                                <<"No sentiment data available">>)])

CompanyAnswers == {"name", "error"}

\* get_company_name: the provider's name; on any failure but an invalid symbol
\* the text "<symbol> Corporation"
get_company_name(sym, answer) ==
    LET v == validate_stock_symbol(Some(sym)) IN
    IF ~v.ok THEN Raised(<<v.error>>)
    ELSE IF answer = "name" THEN Returned(<<"Acme Inc.">>)
    ELSE Returned(sym \o <<" Corporation">>)

-----------------------------------------------------------------------------
(* The task agents.  st is the state given to the agent, fetched the outcome *)
(* of its awaited fetch; the value is the dict the agent returns.  The list  *)
(* under agents_completed is not copied by state.copy(): the append of the   *)
(* success path is made on the list object of the given state, which the     *)
(* actions below carry over to every dict that holds that same list.         *)

AgentNames == <<"price", "fundamentals", "analyst", "sentiment", "company">>

AgentSet == Range(AgentNames)

\* completed = result.get('agents_completed', []); append unless present
MarkCompleted(result, name) ==
    LET completed == Val(DictGetDefault(result, "agents_completed", <<>>)) IN
    DictSet(result, "agents_completed",
            Some(IF name \in Range(completed) THEN completed
                 ELSE Append(completed, name)))

\* state.get(key, []).copy()
ListCopy(st, key) == Val(DictGetDefault(st, key, <<>>))

price_agent(st, fetched) ==
    LET result == DictSet(st, "price_status", Some("processing")) IN
    IF fetched.ok
    THEN LET price_data == Val(fetched.value)
             data_sources == Append(ListCopy(st, "data_sources"),
                                    Val(DictGetDefault(price_data, "source", "unknown")))
         IN MarkCompleted(
                DictUpdate(result, [price_data |-> Some(price_data),
                                    data_sources |-> Some(data_sources),
                                    price_status |-> Some("success")]),
                "price")
    ELSE LET errors == Append(ListCopy(st, "processing_errors"),
                              <<"Price fetch failed: ">> \o fetched.error)
         IN DictUpdate(result, [price_error |-> Some(fetched.error),
                                processing_errors |-> Some(errors),
                                partial_data |-> Some(TRUE),
                                price_status |-> Some("failed")])

fundamentals_agent(st, fetched) ==
    LET result == DictSet(st, "fundamentals_status", Some("processing")) IN
    IF fetched.ok
    THEN LET data_sources == Append(ListCopy(st, "data_sources"), "yfinance_fundamentals")
         IN MarkCompleted(
                DictUpdate(result, [financial_metrics |-> fetched.value,
                                    data_sources |-> Some(data_sources),
                                    fundamentals_status |-> Some("success")]),
                "fundamentals")
    ELSE LET errors == Append(ListCopy(st, "processing_errors"),
                              <<"Fundamentals fetch failed: ">> \o fetched.error)
         IN DictUpdate(result, [financial_metrics |-> Some(FinancialMetrics({})),
                                fundamentals_error |-> Some(fetched.error),
                                processing_errors |-> Some(errors),
                                partial_data |-> Some(TRUE),
                                fundamentals_status |-> Some("failed")])

\* ratings and earnings are the outcomes of the two awaited fetches, the second
\* of which is not reached when the first raises
analyst_agent(st, ratings, earnings) ==
    LET result == DictSet(st, "analyst_status", Some("processing")) IN
    IF ratings.ok /\ earnings.ok
    THEN LET ds0 == ListCopy(st, "data_sources")
             ds1 == IF Len(Val(ratings.value)) > 0
                    THEN Append(ds0, "finnhub_analysts") ELSE ds0
             ds2 == IF Len(Val(earnings.value)) > 0
                    THEN Append(ds1, "yfinance_earnings") ELSE ds1
         IN MarkCompleted(
                DictUpdate(result, [analyst_ratings |-> ratings.value,
                                    earnings_data |-> earnings.value,
                                    data_sources |-> Some(ds2),
                                    analyst_status |-> Some("success")]),
                "analyst")
    ELSE LET e == IF ratings.ok THEN earnings.error ELSE ratings.error
             errors == Append(ListCopy(st, "processing_errors"),
                              <<"Analyst data fetch failed: ">> \o e)
         IN DictUpdate(result, [analyst_ratings |-> Some(<<>>),
                                earnings_data |-> Some(<<>>),
                                analyst_error |-> Some(e),
                                processing_errors |-> Some(errors),
                                partial_data |-> Some(TRUE),
                                analyst_status |-> Some("failed")])

sentiment_agent(st, fetched) ==
    LET result == DictSet(st, "sentiment_status", Some("processing")) IN
    IF fetched.ok
    THEN LET data_sources == ListCopy(st, "data_sources") \o <<"newsapi", "rss_feeds">>
         IN MarkCompleted(
                DictUpdate(result, [sentiment_items |-> Some(Val(fetched.value).items),
                                    sentiment_summary |-> Some(Val(fetched.value).summary),
                                    data_sources |-> Some(data_sources),
                                    sentiment_status |-> Some("success")]),
                "sentiment")
    ELSE LET errors == Append(ListCopy(st, "processing_errors"),
                              <<"Sentiment analysis failed: ">> \o fetched.error)
             empty_sentiment == SentimentSummary("neutral", 0, 0, 0, 0,
                                                 <<"Sentiment analysis unavailable">>)
         IN DictUpdate(result, [sentiment_items |-> Some(<<>>),
                                sentiment_summary |-> Some(empty_sentiment),
                                sentiment_error |-> Some(fetched.error),
                                processing_errors |-> Some(errors),
                                partial_data |-> Some(TRUE),
                                sentiment_status |-> Some("failed")])

\* the mutant resets the fields of the price agent in its copy of st
CompanyAgentFromFreshState(st, fetched) ==
    LET result == DictUpdate(st, [price_status |-> Some("pending"),
                                  price_data |-> None,
                                  company_status |-> Some("processing")]) IN
    IF fetched.ok
    THEN MarkCompleted(
             DictUpdate(result, [company_name |-> fetched.value,
                                 company_status |-> Some("success")]),
             "company")
    ELSE DictUpdate(result, [company_name |-> None,
                             company_status |-> Some("failed")])

company_info_agent(st, fetched) ==
    LET result == DictSet(st, "company_status", Some("processing")) IN
    IF fetched.ok
    THEN MarkCompleted(
             DictUpdate(result, [company_name |-> fetched.value,
                                 company_status |-> Some("success")]),
             "company")
    ELSE DictUpdate(result, [company_name |-> None,
                             company_status |-> Some("failed")])

-----------------------------------------------------------------------------
(* root_node, the validators and the progress of the coordinating agent *)

root_node(st) ==
    DictUpdate(st, [price_status |-> Some("pending"),
                    fundamentals_status |-> Some("pending"),
                    analyst_status |-> Some("pending"),
                    sentiment_status |-> Some("pending"),
                    company_status |-> Some("pending"),
                    agents_completed |-> Some(<<>>),
                    validation_results |-> Some(EmptyDict),
                    overall_status |-> Some("initializing"),
                    progress_percentage |-> Some(0),
                    data_sources |-> Some(<<>>),
                    processing_errors |-> Some(<<>>),
                    partial_data |-> Some(FALSE)])

Verdict(valid, message) == [valid |-> valid, message |-> message]

_validate_price_data(st) ==
    LET price_data == DictGet(st, "price_data") IN
    IF IsNone(price_data) \/ DOMAIN Val(price_data) = {}
    THEN Verdict(FALSE, <<"No price data available">>)
    ELSE IF ~({"price", "source"} \subseteq DOMAIN Val(price_data))
    THEN Verdict(FALSE, <<"Missing required fields">>)
    ELSE IF IsNone(Val(price_data)["price"]) \/ Val(Val(price_data)["price"]) <= 0
    THEN Verdict(FALSE, <<"Invalid price value">>)
    ELSE Verdict(TRUE, <<"Price data validated successfully">>)

\* a FinancialMetrics object is truthy whatever its fields
_validate_financial_metrics(st) ==
    IF IsNone(DictGet(st, "financial_metrics"))
    THEN Verdict(FALSE, <<"No financial metrics available (rate limited)">>)
    ELSE Verdict(TRUE, <<"Financial metrics processed">>)

_validate_analyst_data(st) ==
    LET ratings == DictGetDefault(st, "analyst_ratings", <<>>) IN
    IF IsNone(ratings) \/ Len(Val(ratings)) = 0
    THEN Verdict(FALSE, <<"No analyst ratings available">>)
    ELSE IF \E i \in 1..Len(Val(ratings)) :
               Len(Val(ratings)[i].firm) = 0 \/ Len(Val(ratings)[i].rating) = 0
    THEN Verdict(FALSE, <<"Invalid rating structure">>)
    ELSE Verdict(TRUE, <<"Validated analyst ratings">>)

_validate_sentiment_data(st) ==
    LET sentiment_items == DictGetDefault(st, "sentiment_items", <<>>)
        sentiment_summary == DictGet(st, "sentiment_summary")
        no_items == IsNone(sentiment_items) \/ Len(Val(sentiment_items)) = 0
    IN IF no_items /\ IsNone(sentiment_summary)
       THEN Verdict(FALSE, <<"No sentiment data available">>)
       ELSE IF ~IsNone(sentiment_summary)
               /\ Val(sentiment_summary).type # "SentimentSummary"
       THEN Verdict(FALSE, <<"Invalid sentiment summary structure">>)
       ELSE Verdict(TRUE, <<"Validated sentiment data">>)

_validate_company_data(st) ==
    LET company_name == DictGet(st, "company_name") IN
    IF IsNone(company_name) \/ Len(Val(company_name)) = 0
    THEN Verdict(FALSE, <<"Company name not available">>)
    ELSE Verdict(TRUE, <<"Company validated">>)

\* self.agent_validators
agent_validators(agent_name, st) ==
    CASE agent_name = "price" -> _validate_price_data(st)
      [] agent_name = "fundamentals" -> _validate_financial_metrics(st)
      [] agent_name = "analyst" -> _validate_analyst_data(st)
      [] agent_name = "sentiment" -> _validate_sentiment_data(st)
      [] agent_name = "company" -> _validate_company_data(st)

\* the mutant records nothing for an invalid result and marks the run as failed
ValidateMarksFailed(agent_name, st) ==
    IF agent_name \notin AgentSet THEN st
    ELSE LET v == agent_validators(agent_name, st)
             validation_results == Val(DictGetDefault(st, "validation_results", EmptyDict))
         IN IF v.valid
            THEN DictSet(st, "validation_results",
                         Some(DictSet(validation_results, agent_name, v.valid)))
            ELSE DictSet(st, "overall_status", Some("error"))

\* CoordinatingAgent.validate_agent_result: updates the given state in place
validate_agent_result(agent_name, st) ==
    IF agent_name \notin AgentSet THEN st
    ELSE LET v == agent_validators(agent_name, st)
             validation_results == Val(DictGetDefault(st, "validation_results", EmptyDict))
             st1 == DictSet(st, "validation_results",
                            Some(DictSet(validation_results, agent_name, v.valid)))
         IN IF v.valid THEN st1
            ELSE DictSet(st1, "processing_errors",
                         Some(Append(Val(DictGetDefault(st1, "processing_errors", <<>>)),
                                     <<agent_name, ": ">> \o v.message)))

total_agents == 5

\* the mutant leaves out the 5% granted for formatting
CalculateProgressNoFormatting(st) ==
    LET completed == Val(DictGetDefault(st, "agents_completed", <<>>))
        validation_results == Val(DictGetDefault(st, "validation_results", EmptyDict))
        total == (85 * Len(completed) + 10 * Cardinality(DOMAIN validation_results))
                     \div total_agents
    IN IF total > 100 THEN 100 ELSE total

\* CoordinatingAgent.calculate_progress.  The float expression
\* int((c/5)*85 + (v/5)*10 + f) equals (85*c + 10*v) \div 5 + f for every
\* c and v in 0..5.
calculate_progress(st) ==
    LET completed == Val(DictGetDefault(st, "agents_completed", <<>>))
        validation_results == Val(DictGetDefault(st, "validation_results", EmptyDict))
        formatting_progress == IF Len(completed) = total_agents THEN 5 ELSE 0
        total == (85 * Len(completed) + 10 * Cardinality(DOMAIN validation_results))
                     \div total_agents + formatting_progress
    IN IF total > 100 THEN 100 ELSE total

-----------------------------------------------------------------------------
(* The response formatter *)

\* truth value of a list-valued or dict-valued optional
NonEmptyList(o) == ~IsNone(o) /\ Len(Val(o)) > 0

\* StockResponse(...): pydantic accepts the arguments iff financial_metrics is a
\* FinancialMetrics, sentiment_summary a SentimentSummary and the three lists
\* are lists (None is refused for a List field)
StockResponseAccepts(a) ==
    /\ ~IsNone(a.financial_metrics)
    /\ Val(a.financial_metrics).type = "FinancialMetrics"
    /\ ~IsNone(a.sentiment_summary)
    /\ Val(a.sentiment_summary).type = "SentimentSummary"
    /\ ~IsNone(a.analyst_ratings)
    /\ ~IsNone(a.earnings_data)
    /\ ~IsNone(a.sentiment_items)

\* the mutant is given no company name and takes the default of the field
StockResponseWithoutName(a) ==
    [symbol |-> a.symbol, company_name |-> None, price |-> a.price,
     currency |-> a.currency, change |-> a.change,
     change_percent |-> a.change_percent, volume |-> a.volume,
     financial_metrics |-> a.financial_metrics,
     analyst_ratings |-> a.analyst_ratings,
     consensus_rating |-> None, average_price_target |-> None,
     earnings_data |-> a.earnings_data, next_earnings_date |-> None,
     sentiment_items |-> a.sentiment_items,
     sentiment_summary |-> a.sentiment_summary,
     data_sources |-> a.data_sources]

\* the fields of StockResponse that were not passed take their defaults
StockResponse(a) ==
    [symbol |-> a.symbol, company_name |-> a.company_name, price |-> a.price,
     currency |-> a.currency, change |-> a.change,
     change_percent |-> a.change_percent, volume |-> a.volume,
     financial_metrics |-> a.financial_metrics,
     analyst_ratings |-> a.analyst_ratings,
     consensus_rating |-> None, average_price_target |-> None,
     earnings_data |-> a.earnings_data, next_earnings_date |-> None,
     sentiment_items |-> a.sentiment_items,
     sentiment_summary |-> a.sentiment_summary,
     data_sources |-> a.data_sources]

NoData == <<"No data available - all agents failed">>

\* format_response(symbol, state): a StockResponse, or a raised exception
format_response(sym, st) ==
    LET price_data == DictGet(st, "price_data")
        has_price == ~IsNone(price_data) /\ DOMAIN Val(price_data) # {}
        has_fundamentals == ~IsNone(DictGet(st, "financial_metrics"))
        has_analyst == NonEmptyList(DictGet(st, "analyst_ratings"))
        has_sentiment == NonEmptyList(DictGet(st, "sentiment_items"))
        has_company == ~IsNone(DictGet(st, "company_name"))
    IN
    IF ~(has_price \/ has_fundamentals \/ has_analyst \/ has_sentiment \/ has_company)
    THEN Raised(<<"StockDataError: ">> \o NoData)
    ELSE
    LET use_price == has_price /\ "price" \in DOMAIN Val(price_data)
        pd == Val(price_data)
        summary0 == DictGetDefault(st, "sentiment_summary", PyEmptyList)
        summary == IF IsNone(summary0) \/ Val(summary0).type = "list"
                   THEN Some(SentimentSummary("neutral", 0, 0, 0, 0,
                                              <<"No sentiment data available">>))
                   ELSE summary0
        a == [symbol |-> Some(sym),
              company_name |-> DictGetDefault(st, "company_name", sym \o <<" Corporation">>),
              price |-> IF use_price THEN pd["price"] ELSE None,
              currency |-> IF use_price THEN DictGetDefault(pd, "currency", "USD")
                           ELSE Some("USD"),
              change |-> IF use_price THEN DictGet(pd, "change") ELSE None,
              change_percent |-> IF use_price THEN DictGet(pd, "change_percent") ELSE None,
              volume |-> IF use_price THEN DictGet(pd, "volume") ELSE None,
              financial_metrics |-> DictGetDefault(st, "financial_metrics", PyEmptyList),
              analyst_ratings |-> DictGetDefault(st, "analyst_ratings", <<>>),
              earnings_data |-> DictGetDefault(st, "earnings_data", <<>>),
              sentiment_items |-> DictGetDefault(st, "sentiment_items", <<>>),
              sentiment_summary |-> summary,
              data_sources |-> Some(ListOfSet(Range(Val(DictGetDefault(st, "data_sources", <<>>)))))]
    IN IF StockResponseAccepts(a) THEN Returned(StockResponse(a))
       ELSE Raised(<<"ValidationError: ">> \o <<"StockResponse">>)

-----------------------------------------------------------------------------
(* The merge of orchestrating_agent *)

\* an entry of the list asyncio.gather returns: a dict, or an exception
DictResult(d) == [kind |-> "dict", dict |-> d, error |-> <<>>]
ExceptionResult(msg) == [kind |-> "exception", dict |-> EmptyDict, error |-> msg]

\* the value of a key that holds a list, [] when it holds None
ListOrEmpty(o) == IF IsNone(o) THEN <<>> ELSE Val(o)

\* the mutant appends the new sources to the existing ones as they come
MergeKeyConcatSources(final, key, value) ==
    IF key = "data_sources"
    THEN DictSet(final, key,
                 Some(Val(DictGetDefault(final, key, <<>>)) \o ListOrEmpty(value)))
    ELSE IF key = "processing_errors"
    THEN DictSet(final, key,
                 Some(Val(DictGetDefault(final, key, <<>>)) \o ListOrEmpty(value)))
    ELSE IF ~IsNone(value) THEN DictSet(final, key, value)
    ELSE final

\* the mutant assigns every key of the result, None included
MergeKeyOverwrite(final, key, value) ==
    IF key = "data_sources"
    THEN DictSet(final, key,
                 Some(ListOfSet(Range(Val(DictGetDefault(final, key, <<>>))
                                      \o ListOrEmpty(value)))))
    ELSE IF key = "processing_errors"
    THEN DictSet(final, key,
                 Some(Val(DictGetDefault(final, key, <<>>)) \o ListOrEmpty(value)))
    ELSE DictSet(final, key, value)

\* the body of "for key, value in result.items()"
MergeKey(final, key, value) ==
    IF key = "data_sources"
    THEN DictSet(final, key,
                 Some(ListOfSet(Range(Val(DictGetDefault(final, key, <<>>))
                                      \o ListOrEmpty(value)))))
    ELSE IF key = "processing_errors"
    THEN DictSet(final, key,
                 Some(Val(DictGetDefault(final, key, <<>>)) \o ListOrEmpty(value)))
    ELSE IF ~IsNone(value) THEN DictSet(final, key, value)
    ELSE final

\* the loop "for key, value in result.items()": the keys of a dict are
\* distinct and the body reads and writes final_state[key] only, so every key
\* ends as one run of the body on the accumulator leaves it
MergeKeys(final, d) ==
    [k \in (DOMAIN final) \cup {j \in DOMAIN d : j \in DOMAIN MergeKey(final, j, d[j])} |->
        IF k \in DOMAIN d THEN MergeKey(final, k, d[k])[k] ELSE final[k]]

\* the body of "for i, result in enumerate(results)"
MergeResult(final, result) ==
    IF result.kind = "dict" THEN MergeKeys(final, result.dict)
    ELSE DictSet(final, "processing_errors",
                 Some(Append(Val(DictGetDefault(final, "processing_errors", <<>>)),
                             result.error)))

RECURSIVE MergeAll(_, _)
MergeAll(final, rs) ==
    IF Len(rs) = 0 THEN final ELSE MergeAll(MergeResult(final, Head(rs)), Tail(rs))

-----------------------------------------------------------------------------
(* No request in progress: the value of the request variables in the        *)
(* specifications that exercise one function                                 *)

RequestIdle ==
    /\ mode = "none"
    /\ pc = "idle"
    /\ req = None
    /\ symbol = <<>>
    /\ state = EmptyDict
    /\ results = EmptyDict
    /\ final_state = EmptyDict
    /\ dpc = "none"
    /\ idx = 0
    /\ pending = None
    /\ log = <<>>
    /\ sent = <<>>
    /\ outcome = "none"
    /\ response = None
    /\ prov = EmptyDict

-----------------------------------------------------------------------------
(* Specification Spec: one request, from its arrival to its end, in either  *)
(* delivery mode                                                            *)

\* the symbols a caller may send: missing, valid, lowercase, too long, with
\* consecutive dots, with one interior dot
RequestSymbols ==
    {None, Some(<<"A", "B">>), Some(<<"a", "b">>),
     Some(<<"A", "A", "A", "A", "A", "A">>), Some(<<"A", ".", ".", "B">>),
     Some(<<"A", ".", "B">>)}

Modes == {"stream", "parallel"}

NoQuote == [ok |-> FALSE, price |-> 0]

\* what the providers of one agent answer; the fallback price source is not
\* asked when the primary answers with a quote
AnswersFor(a) ==
    CASE a = "price" ->
            {[alpha |-> x, yfinance |-> y] : x \in PriceAnswers, y \in PriceAnswers}
            \ {r \in [alpha : PriceAnswers, yfinance : PriceAnswers] :
                    r.alpha.ok /\ r.yfinance # NoQuote}
      [] a = "fundamentals" -> FundamentalsAnswers
      [] a = "analyst" -> [ratings : AnalystAnswers, earnings : AnalystAnswers]
      [] a = "sentiment" -> SentimentAnswers
      [] a = "company" -> CompanyAnswers

\* the call of agent a on st, its providers answering ans
RunAgent(a, st, sym, ans) ==
    CASE a = "price" ->
            price_agent(st, fetch_current_price(sym, ans.alpha, ans.yfinance))
      [] a = "fundamentals" ->
            fundamentals_agent(st, fetch_financial_metrics(sym, ans))
      [] a = "analyst" ->
            analyst_agent(st, fetch_analyst_ratings(sym, ans.ratings),
                          fetch_earnings_data(sym, ans.earnings))
      [] a = "sentiment" ->
            sentiment_agent(st, fetch_comprehensive_sentiment(ans))
      [] a = "company" ->
            company_info_agent(st, get_company_name(sym, ans))

\* entries of log
Ran(a) == [kind |-> "run", agent |-> a, event |-> EmptyDict]
Yielded(e) == [kind |-> "yield", agent |-> "", event |-> e]

\* the dict d, its agents_completed list being the shared list object whose
\* content is now that of the same key in r
SharingCompleted(d, r) ==
    IF "agents_completed" \in DOMAIN d /\ "agents_completed" \in DOMAIN r
    THEN DictSet(d, "agents_completed", r["agents_completed"])
    ELSE d

Init ==
    /\ RequestIdle
    /\ arg = None
    /\ ret = None

\* the mutant lets every request through
AcceptAnyRequest(sym) == TRUE

\* the request body is parsed into a StockRequest: FastAPI answers 422, and
\* StockRequest(symbol=...) raises, when the symbol does not match
stock_request_accepts(sym) == StockRequestValid(sym)

Submit(m, s) ==
    /\ pc = "idle"
    /\ mode' = m
    /\ req' = s
    /\ IF stock_request_accepts(s)
       THEN pc' = "accepted" /\ outcome' = outcome
       ELSE pc' = "done" /\ outcome' = "rejected"
    /\ UNCHANGED <<symbol, state, results, final_state, dpc, idx, pending, log,
                   sent, response, prov, arg, ret>>

-----------------------------------------------------------------------------
(* Parallel mode: orchestrate, the graph root_node -> orchestrating_agent *)

\* orchestrate up to the start of the five tasks
OrchestrateStart ==
    /\ pc = "accepted" /\ mode = "parallel"
    /\ symbol' = Upper(Val(req))
    /\ state' = root_node([symbol |-> Some(symbol')])
    /\ pc' = "gather"
    /\ UNCHANGED <<mode, req, results, final_state, dpc, idx, pending, log, sent,
                   outcome, response, prov, arg, ret>>

\* the task of agent a runs to its end
AgentTask(a) ==
    /\ pc = "gather" /\ a \notin DOMAIN results
    /\ \E ans \in AnswersFor(a) :
        LET r == RunAgent(a, state, symbol, ans) IN
        /\ results' = [b \in (DOMAIN results) \cup {a} |->
                          IF b = a THEN r ELSE SharingCompleted(results[b], r)]
        /\ state' = SharingCompleted(state, r)
        /\ prov' = DictSet(prov, a, ans)
    /\ log' = Append(log, Ran(a))
    /\ UNCHANGED <<mode, pc, req, symbol, final_state, dpc, idx, pending, sent,
                   outcome, response, arg, ret>>

\* orchestrating_agent after asyncio.gather: the merge loop
OrchestrateMerge ==
    /\ pc = "gather" /\ DOMAIN results = AgentSet
    /\ final_state' = MergeAll(state, [i \in 1..Len(AgentNames) |->
                                          DictResult(results[AgentNames[i]])])
    /\ pc' = "format"
    /\ UNCHANGED <<mode, req, symbol, state, results, dpc, idx, pending, log,
                   sent, outcome, response, prov, arg, ret>>

\* orchestrate after the graph: format_response, or StockDataError
OrchestrateFormat ==
    /\ pc = "format"
    /\ LET r == format_response(symbol, final_state) IN
       IF r.ok THEN response' = r.value /\ outcome' = "response"
       ELSE response' = None /\ outcome' = "error"
    /\ pc' = "done"
    /\ UNCHANGED <<mode, req, symbol, state, results, final_state, dpc, idx,
                   pending, log, sent, prov, arg, ret>>

-----------------------------------------------------------------------------
(* Streaming mode: event_generator of /analyze-stream iterating over        *)
(* stream_coordinated_analysis.  The driver runs from one yield to the next  *)
(* when the endpoint asks for the next event; the endpoint then checks the   *)
(* connection and forwards the event.                                        *)

StartedEvent == [status |-> "started", progress |-> 0]
ProcessingEvent(a, p) == [status |-> "processing", progress |-> p, current_agent |-> a]
AgentCompleteEvent(a, p, s) ==
    [status |-> "agent_complete", progress |-> p, agent |-> a, agent_status |-> s]
FinalizingEvent == [status |-> "finalizing", progress |-> 95]
CompleteEvent(data, st) ==
    [status |-> "complete", progress |-> 100, data |-> data,
     validation_summary |-> Val(DictGetDefault(st, "validation_results", EmptyDict)),
     data_sources |-> Val(DictGetDefault(st, "data_sources", <<>>))]
FormatErrorEvent(e) == [status |-> "error", progress |-> 100, error |-> e]

InvalidSymbolEvent(e) == [status |-> "error", error |-> "invalid_symbol", message |-> e]
DisconnectedEvent ==
    [status |-> "cancelled", message |-> "Analysis stopped - client disconnected"]
StoppedEvent == [status |-> "cancelled", message |-> "Analysis stopped by user"]
InternalErrorEvent ==
    [error |-> "internal_error", message |-> "An error occurred during analysis"]

\* event_generator up to the first event of the driver: the symbol is
\* validated, the state initialised and 'started' yielded
StreamStart ==
    /\ pc = "accepted" /\ mode = "stream"
    /\ symbol' = Upper(Val(req))
    /\ LET v == validate_stock_symbol(Some(symbol')) IN
       IF v.ok
       THEN /\ state' = root_node([symbol |-> Some(symbol')])
            /\ pending' = Some(StartedEvent)
            /\ log' = Append(log, Yielded(StartedEvent))
            /\ dpc' = "started"
            /\ pc' = "streaming"
            /\ UNCHANGED <<sent, outcome>>
       ELSE /\ sent' = Append(sent, InvalidSymbolEvent(v.error))
            /\ outcome' = "error"
            /\ pc' = "done"
            /\ UNCHANGED <<state, pending, log, dpc>>
    /\ UNCHANGED <<mode, req, results, final_state, idx, response, prov, arg, ret>>

\* the mutant walks the agents from the last to the first
LoopAgentReversed(i) == AgentNames[Len(AgentNames) - i]

\* agents[i]: the driver's fixed order
LoopAgent(i) == AgentNames[i + 1]

\* the loop body up to its first yield
DriverProcessing ==
    /\ pc = "streaming" /\ IsNone(pending)
    /\ dpc \in {"started", "agent_complete"}
    /\ idx < Len(AgentNames)
    /\ LET e == ProcessingEvent(LoopAgent(idx), (idx * 80) \div Len(AgentNames)) IN
       /\ pending' = Some(e)
       /\ log' = Append(log, Yielded(e))
    /\ dpc' = "processing"
    /\ UNCHANGED <<mode, pc, req, symbol, state, results, final_state, idx, sent,
                   outcome, response, prov, arg, ret>>

\* the loop body from the agent call to its second yield
DriverAgent ==
    /\ pc = "streaming" /\ IsNone(pending)
    /\ dpc = "processing"
    /\ LET a == LoopAgent(idx) IN
       \E ans \in AnswersFor(a) :
          LET st == validate_agent_result(a, RunAgent(a, state, symbol, ans))
              progress == calculate_progress(st)
              validation == Val(DictGetDefault(st, "validation_results", EmptyDict))
              agent_status == IF a \in DOMAIN validation /\ validation[a]
                              THEN "success" ELSE "warning"
              e == AgentCompleteEvent(a, progress, agent_status)
          IN /\ state' = st
             /\ prov' = DictSet(prov, a, ans)
             /\ pending' = Some(e)
             /\ log' = log \o <<Ran(a), Yielded(e)>>
    /\ idx' = idx + 1
    /\ dpc' = "agent_complete"
    /\ UNCHANGED <<mode, pc, req, symbol, results, final_state, sent, outcome,
                   response, arg, ret>>

DriverFinalizing ==
    /\ pc = "streaming" /\ IsNone(pending)
    /\ dpc \in {"started", "agent_complete"}
    /\ idx = Len(AgentNames)
    /\ pending' = Some(FinalizingEvent)
    /\ log' = Append(log, Yielded(FinalizingEvent))
    /\ dpc' = "finalizing"
    /\ UNCHANGED <<mode, pc, req, symbol, state, results, final_state, idx, sent,
                   outcome, response, prov, arg, ret>>

\* format_response and the terminal event of the driver
DriverFormat ==
    /\ pc = "streaming" /\ IsNone(pending)
    /\ dpc = "finalizing"
    /\ LET r == format_response(symbol, state)
           e == IF r.ok THEN CompleteEvent(Val(r.value), state)
                ELSE FormatErrorEvent(r.error)
       IN /\ response' = r.value
          /\ pending' = Some(e)
          /\ log' = Append(log, Yielded(e))
    /\ dpc' = "terminal"
    /\ UNCHANGED <<mode, pc, req, symbol, state, results, final_state, idx, sent,
                   outcome, prov, arg, ret>>

\* the driver returns: the async for loop of the endpoint ends
DriverEnd ==
    /\ pc = "streaming" /\ IsNone(pending)
    /\ dpc = "terminal"
    /\ dpc' = "returned"
    /\ pc' = "done"
    /\ outcome' = IF IsNone(response) THEN "error" ELSE "response"
    /\ UNCHANGED <<mode, req, symbol, state, results, final_state, idx, pending,
                   log, sent, response, prov, arg, ret>>

\* the mutant writes the cancellation and goes on with the loop
EndpointCheckNoBreak(disconnected) ==
    /\ pc = "streaming" /\ ~IsNone(pending)
    /\ IF disconnected
       THEN /\ sent' = Append(sent, DisconnectedEvent)
            /\ outcome' = "cancelled"
       ELSE /\ sent' = Append(sent, Val(pending))
            /\ outcome' = outcome
    /\ pending' = None
    /\ UNCHANGED <<mode, pc, req, symbol, state, results, final_state, dpc, idx,
                   log, response, prov, arg, ret>>

\* the body of the async for loop: request.is_disconnected() answers
\* disconnected, then the event or the cancellation is written
EndpointCheck(disconnected) ==
    /\ pc = "streaming" /\ ~IsNone(pending)
    /\ IF disconnected
       THEN /\ sent' = Append(sent, DisconnectedEvent)
            /\ pc' = "done"
            /\ outcome' = "cancelled"
       ELSE /\ sent' = Append(sent, Val(pending))
            /\ UNCHANGED <<pc, outcome>>
    /\ pending' = None
    /\ UNCHANGED <<mode, req, symbol, state, results, final_state, dpc, idx, log,
                   response, prov, arg, ret>>

\* the kinds of exception the handlers of event_generator tell apart
ExceptionKinds == {"ConnectionError", "Exception", "Exception:connection"}

\* an exception is raised inside the try block (by the transport): the
\* handler that matches it ends the stream
EndpointRaise(kind) ==
    /\ pc = "streaming" /\ ~IsNone(pending)
    /\ sent' = CASE kind = "ConnectionError" -> Append(sent, StoppedEvent)
                 [] kind = "Exception" -> Append(sent, InternalErrorEvent)
                 [] kind = "Exception:connection" -> sent
    /\ pc' = "done"
    /\ outcome' = "aborted"
    /\ pending' = None
    /\ UNCHANGED <<mode, req, symbol, state, results, final_state, dpc, idx, log,
                   response, prov, arg, ret>>

Next ==
    \/ \E m \in Modes : \E s \in RequestSymbols : Submit(m, s)
    \/ OrchestrateStart
    \/ \E a \in AgentSet : AgentTask(a)
    \/ OrchestrateMerge
    \/ OrchestrateFormat
    \/ StreamStart
    \/ DriverProcessing
    \/ DriverAgent
    \/ DriverFinalizing
    \/ DriverFormat
    \/ DriverEnd
    \/ \E d \in BOOLEAN : EndpointCheck(d)
    \/ \E k \in ExceptionKinds : EndpointRaise(k)

Spec == Init /\ [][Next]_vars

-----------------------------------------------------------------------------
(* Specification SpecSym: validate_stock_symbol on every short string *)

SymAlphabet == {"A", "a", ".", " ", "1"}

InitSym ==
    /\ RequestIdle
    /\ arg \in {None} \cup {Some(s) : s \in BoundedSeq(SymAlphabet, MaxSymLen)}
    /\ ret = None

ValidateSym ==
    /\ ret = None
    /\ ret' = Some(validate_stock_symbol(arg))
    /\ UNCHANGED <<arg, requestVars>>

NextSym == ValidateSym

SpecSym == InitSym /\ [][NextSym]_vars

\* the format of the specification, read on the text as given: only uppercase
\* letters and dots, 1 to 5 letters, no dot first, last or next to a dot
WellFormedAsGiven(sym) ==
    /\ ~IsNone(sym)
    /\ LET s == Val(sym) IN
       /\ \A i \in 1..Len(s) : s[i] \in UpperLetters \cup {"."}
       /\ Cardinality({i \in 1..Len(s) : s[i] \in UpperLetters}) \in 1..5
       /\ s[1] # "." /\ s[Len(s)] # "."
       /\ \A i \in 1..(Len(s) - 1) : ~(s[i] = "." /\ s[i + 1] = ".")

\* the same format read on the text between the surrounding whitespace,
\* letters of either case, at most 5 characters with the dots counted
WellFormedNormalised(sym) ==
    /\ ~IsNone(sym)
    /\ LET s == Val(sym) IN
       \E i \in 1..Len(s) : \E j \in i..Len(s) :
          /\ \A k \in 1..(i - 1) : s[k] \in Whitespace
          /\ \A k \in (j + 1)..Len(s) : s[k] \in Whitespace
          /\ j - i + 1 <= 5
          /\ \A k \in i..j : s[k] \in UpperLetters \cup LowerLetters \cup {"."}
          /\ s[i] # "." /\ s[j] # "."
          /\ \A k \in i..(j - 1) : ~(s[k] = "." /\ s[k + 1] = ".")

\* C6 (as stated): validate_stock_symbol succeeds exactly on the strings of 1 to
\* 5 uppercase letters with optional interior, non-consecutive dots, and raises
\* InvalidSymbolError on every other string, lowercase ones included.
C6_ValidatesExactlyWellFormed ==
    ~IsNone(ret) => (Val(ret).ok <=> WellFormedAsGiven(arg))

\* C6 (amended): validate_stock_symbol succeeds exactly on the strings that,
\* once surrounding whitespace is stripped and the letters are upper-cased, are
\* 1 to 5 characters long (dots counted), hold only letters and dots, and have no
\* leading, trailing or consecutive dot; every other string raises.
C6_ValidatesNormalisedWellFormed ==
    ~IsNone(ret) => (Val(ret).ok <=> WellFormedNormalised(arg))

\* a lowercase, whitespace-padded dotted symbol was accepted
C6_Witness ==
    /\ ~IsNone(ret) /\ Val(ret).ok
    /\ ~IsNone(arg)
    /\ \E i \in 1..Len(Val(arg)) : Val(arg)[i] \in LowerLetters
    /\ \E i \in 1..Len(Val(arg)) : Val(arg)[i] = "."
    /\ Val(arg)[1] \in Whitespace

-----------------------------------------------------------------------------
(* Specification SpecFormat: format_response on states of every shape *)

\* a choice for one key: <<>> leaves the key out, <<v>> stores the optional v
Absent == <<>>
Present(o) == <<o>>

\* the dict holding the keys that were given a value
DictOf(choices) ==
    [k \in {j \in DOMAIN choices : Len(choices[j]) > 0} |-> choices[k][1]]

FormatSymbol == <<"A", "B">>

FormatStates ==
    {DictOf([price_data |-> p, financial_metrics |-> f, analyst_ratings |-> r,
             sentiment_items |-> i, sentiment_summary |-> s, company_name |-> c,
             earnings_data |-> e, data_sources |-> d]) :
        p \in {Absent, Present(None), Present(Some(EmptyDict)),
               Present(Some([source |-> Some("yfinance")])),
               Present(Some(PriceData(1, "yfinance")))},
        f \in {Absent, Present(None), Present(Some(FinancialMetrics({}))),
               Present(Some(FinancialMetrics({"market_cap"})))},
        r \in {Absent, Present(None), Present(Some(<<>>)),
               Present(Some(<<AnalystRating(<<"Consensus">>, <<"Buy: 1, Hold: 0, Sell: 0">>)>>))},
        i \in {Absent, Present(None), Present(Some(<<>>)),
               Present(Some(<<SentimentItem("newsapi", "positive")>>))},
        s \in {Absent, Present(None),
               Present(Some(SentimentSummary("positive", 1, 1, 0, 0, <<"Based on 1 articles: ">>)))},
        c \in {Absent, Present(None), Present(Some(<<>>)), Present(Some(<<"Acme Inc.">>))},
        e \in {Absent, Present(Some(<<>>))},
        d \in {Absent, Present(Some(<<"yfinance", "yfinance">>))}}

InitFormat ==
    /\ RequestIdle
    /\ arg \in FormatStates
    /\ ret = None

FormatStep ==
    /\ ret = None
    /\ ret' = Some(format_response(FormatSymbol, arg))
    /\ UNCHANGED <<arg, requestVars>>

NextFormat == FormatStep

SpecFormat == InitFormat /\ [][NextFormat]_vars

\* what "absent" means for each of the five data kinds
PriceAbsent(st) ==
    IsNone(DictGet(st, "price_data")) \/ DOMAIN Val(DictGet(st, "price_data")) = {}
FundamentalsAbsent(st) == IsNone(DictGet(st, "financial_metrics"))
AnalystAbsent(st) == ~NonEmptyList(DictGet(st, "analyst_ratings"))
SentimentAbsent(st) == ~NonEmptyList(DictGet(st, "sentiment_items"))
CompanyAbsent(st) == IsNone(DictGet(st, "company_name"))

AllFiveAbsent(st) ==
    /\ PriceAbsent(st) /\ FundamentalsAbsent(st) /\ AnalystAbsent(st)
    /\ SentimentAbsent(st) /\ CompanyAbsent(st)

\* C2: format_response raises only when the five data kinds are all absent;
\* with one of the five present it returns a response, whose price is null and
\* currency 'USD' when the price data is absent and whose sentiment summary is
\* the neutral zero-confidence one when the summary is absent.
C2_FormatterRaisesOnlyWhenAllAbsent ==
    ~IsNone(ret) =>
        LET r == Val(ret) IN
        /\ ~r.ok <=> AllFiveAbsent(arg)
        /\ r.ok =>
            /\ PriceAbsent(arg) =>
                  /\ IsNone(Val(r.value).price)
                  /\ Val(r.value).currency = Some("USD")
            /\ IsNone(DictGet(arg, "sentiment_summary")) =>
                  /\ Val(Val(r.value).sentiment_summary).overall_score = "neutral"
                  /\ Val(Val(r.value).sentiment_summary).confidence = 0

-----------------------------------------------------------------------------
(* Specification SpecMerge: the merge loop of orchestrating_agent on agent  *)
(* results of every shape.  final_state is the accumulator, idx the number   *)
(* of results merged, arg the result merged last and ret the accumulator     *)
(* as it was before that merge.                                              *)

MergeResults ==
    {DictResult(DictOf([a |-> a, b |-> b, data_sources |-> d, processing_errors |-> e])) :
        a \in {Absent, Present(None), Present(Some(1)), Present(Some(2))},
        b \in {Absent, Present(None), Present(Some(1))},
        d \in {Absent, Present(None), Present(Some(<<"s1">>)),
               Present(Some(<<"s2", "s1">>))},
        e \in {Absent, Present(Some(<<<<"e1">>>>))}}
    \cup {ExceptionResult(<<"boom">>)}

MergeStarts ==
    {DictOf([a |-> a, data_sources |-> Present(Some(<<>>)),
             processing_errors |-> Present(Some(<<>>))]) :
        a \in {Absent, Present(None), Present(Some(1))}}

InitMerge ==
    /\ mode = "none" /\ pc = "idle" /\ req = None /\ symbol = <<>>
    /\ state = EmptyDict /\ results = EmptyDict
    /\ dpc = "none" /\ pending = None /\ log = <<>> /\ sent = <<>>
    /\ outcome = "none" /\ response = None /\ prov = EmptyDict
    /\ final_state \in MergeStarts
    /\ idx = 0
    /\ arg = None
    /\ ret = None

MergeStep ==
    /\ idx < MaxMerges
    /\ \E r \in MergeResults :
          /\ final_state' = MergeResult(final_state, r)
          /\ arg' = Some(r)
    /\ ret' = Some(final_state)
    /\ idx' = idx + 1
    /\ UNCHANGED <<mode, pc, req, symbol, state, results, dpc, pending, log,
                   sent, outcome, response, prov>>

NextMerge == MergeStep

SpecMerge == InitMerge /\ [][NextMerge]_vars

ListKeys == {"data_sources", "processing_errors"}

\* C10: merging a result whose value for a key other than data_sources and
\* processing_errors is None leaves the accumulator's entry for that key as it
\* was: same presence, same value, at every step of any sequence of merges.
C10_MergeNullPreserving ==
    (~IsNone(arg) /\ Val(arg).kind = "dict") =>
        \A k \in (DOMAIN Val(arg).dict) \ ListKeys :
            IsNone(Val(arg).dict[k]) =>
                /\ k \in DOMAIN final_state <=> k \in DOMAIN Val(ret)
                /\ k \in DOMAIN Val(ret) => final_state[k] = Val(ret)[k]

\* {a: 1} was in the accumulator, {a: None} was merged, and a is still 1
C10_Witness ==
    /\ ~IsNone(arg) /\ Val(arg).kind = "dict"
    /\ "a" \in DOMAIN Val(arg).dict /\ IsNone(Val(arg).dict["a"])
    /\ "a" \in DOMAIN Val(ret) /\ Val(ret)["a"] = Some(1)
    /\ final_state["a"] = Some(1)
    /\ idx >= 2

-----------------------------------------------------------------------------
(* Properties of one request, checked under Spec *)

StatusKey(a) ==
    CASE a = "price" -> "price_status"
      [] a = "fundamentals" -> "fundamentals_status"
      [] a = "analyst" -> "analyst_status"
      [] a = "sentiment" -> "sentiment_status"
      [] a = "company" -> "company_status"

\* the status agent a tagged its own result with, given what its providers
\* answered to this request
AgentStatus(a) ==
    RunAgent(a, root_node([symbol |-> Some(symbol)]), symbol, prov[a])[StatusKey(a)]

\* the five agents ran and the formatter was called: the run went to its end
RunEnded ==
    /\ pc = "done" /\ outcome \in {"response", "error"}
    /\ DOMAIN prov = AgentSet

\* the state left at the end of the run
EndState == IF mode = "parallel" THEN final_state ELSE state

\* C1: when the five agents succeed for a valid symbol, the state left at the
\* end of the run, in the parallel coordinator and in the streaming driver, has
\* the five status fields equal to 'success', and the response has a non-null
\* price greater than 0 and a non-empty data_sources list.
C1_AllSucceedEndState ==
    (RunEnded /\ \A a \in AgentSet : AgentStatus(a) = Some("success")) =>
        /\ \A a \in AgentSet : DictGet(EndState, StatusKey(a)) = Some("success")
        /\ ~IsNone(response)
        /\ ~IsNone(Val(response).price)
        /\ Val(Val(response).price) > 0
        /\ Len(Val(Val(response).data_sources)) > 0

\* every provider call of the request failed or had no data
AllProvidersFail ==
    /\ DOMAIN prov = AgentSet
    /\ prov["price"] = [alpha |-> NoQuote, yfinance |-> NoQuote]
    /\ prov["fundamentals"] = "error"
    /\ prov["analyst"] = [ratings |-> "error", earnings |-> "error"]
    /\ prov["sentiment"] = "error"
    /\ prov["company"] = "error"

\* C3: for a well-formed symbol for which every provider call fails or has no
\* data, each of the five agents ends with status 'failed' and the formatter
\* raises the 'no data available' error: the request ends in an error and not
\* in a response.
C3_AllProvidersFailNoData ==
    (RunEnded /\ AllProvidersFail) =>
        /\ \A a \in AgentSet : AgentStatus(a) = Some("failed")
        /\ outcome = "error"
        /\ IsNone(response)

PrimaryFailsFallbackSucceeds ==
    /\ "price" \in DOMAIN prov
    /\ ~prov["price"].alpha.ok
    /\ prov["price"].yfinance.ok

\* the state the price agent returned: the entry of its task in parallel mode,
\* the driver's state in streaming mode
PriceAgentResult == IF mode = "parallel" THEN results["price"] ELSE state

\* C4: when the primary price source fails and the fallback succeeds, the state
\* the price agent returns has price_status 'success', the run ends in a
\* response, the price of the response is the fallback's price, and its
\* data_sources holds the fallback's identifier and not the primary's.
C4_FallbackPriceUsed ==
    PrimaryFailsFallbackSucceeds =>
        /\ DictGet(PriceAgentResult, "price_status") = Some("success")
        /\ RunEnded => ~IsNone(response)
        /\ ~IsNone(response) =>
            /\ Val(response).price = Some(prov["price"].yfinance.price)
            /\ "yfinance" \in Range(Val(Val(response).data_sources))
            /\ "alpha_vantage" \notin Range(Val(Val(response).data_sources))

\* a parallel run ended in a response carrying the fallback's price
C4_Witness ==
    /\ PrimaryFailsFallbackSucceeds
    /\ mode = "parallel" /\ RunEnded
    /\ ~IsNone(response)
    /\ Val(response).price = Some(1)
    /\ results["price"]["price_status"] = Some("success")

\* C5: a request whose symbol is not well formed (too long, lowercase, with
\* '..', missing) is rejected in either mode before any agent starts: no agent
\* is invoked, no event is emitted or sent, and the only outcome is a rejection.
C5_InvalidSymbolRejectedFirst ==
    (pc # "idle" /\ ~WellFormedAsGiven(req)) =>
        /\ pc = "done"
        /\ outcome = "rejected"
        /\ log = <<>>
        /\ sent = <<>>
        /\ results = EmptyDict
        /\ prov = EmptyDict

\* a lowercase symbol sent to the streaming endpoint was rejected
C5_Witness ==
    /\ mode = "stream"
    /\ req = Some(<<"a", "b">>)
    /\ pc = "done"
    /\ outcome = "rejected"

\* the status of an event, "" for an event that carries none
EventStatus(e) == IF "status" \in DOMAIN e THEN e.status ELSE ""

TerminalEvent(e) == EventStatus(e) \in {"complete", "error", "cancelled"}

\* the streaming endpoint answered the request and its stream is closed
StreamClosed == mode = "stream" /\ pc = "done" /\ outcome # "rejected"

\* C7: every event sequence of the streaming endpoint ends with exactly one
\* terminal event, of status 'complete', 'error' or 'cancelled', whatever the
\* agents, the formatter and the transport do, exceptions included.
C7_StreamEndsWithOneTerminal ==
    StreamClosed =>
        /\ Len(sent) > 0
        /\ TerminalEvent(sent[Len(sent)])
        /\ \A i \in 1..(Len(sent) - 1) : ~TerminalEvent(sent[i])

\* the entry the driver writes at place j of its run: started, then
\* processing / the agent's run / agent_complete for each agent in the fixed
\* order, then finalizing, then complete or error
DriverEntryAt(j, entry) ==
    IF j = 1
    THEN entry.kind = "yield" /\ entry.event.status = "started"
         /\ entry.event.progress = 0
    ELSE IF j <= 16
    THEN LET i == (j - 2) \div 3
             a == AgentNames[i + 1]
         IN CASE (j - 2) % 3 = 0 ->
                    /\ entry.kind = "yield" /\ entry.event.status = "processing"
                    /\ entry.event.current_agent = a
                    /\ entry.event.progress = (80 * i) \div 5
              [] (j - 2) % 3 = 1 -> entry.kind = "run" /\ entry.agent = a
              [] (j - 2) % 3 = 2 ->
                    /\ entry.kind = "yield" /\ entry.event.status = "agent_complete"
                    /\ entry.event.agent = a
    ELSE IF j = 17
    THEN entry.kind = "yield" /\ entry.event.status = "finalizing"
         /\ entry.event.progress = 95
    ELSE /\ j = 18
         /\ entry.kind = "yield" /\ entry.event.status \in {"complete", "error"}
         /\ entry.event.progress = 100

\* C8: the driver emits started (0), then for each agent in the order price,
\* fundamentals, analyst, sentiment, company a processing event with progress
\* floor(80*index/5), the run of that agent and its agent_complete event, then
\* finalizing (95), then complete or error (100); at any moment what it has done
\* is a prefix of that sequence, and all of it once the driver has returned.
C8_DriverSequence ==
    mode = "stream" =>
        /\ \A j \in 1..Len(log) : DriverEntryAt(j, log[j])
        /\ dpc = "returned" => Len(log) = 18

\* the driver returned after a complete event
C8_Witness ==
    /\ mode = "stream" /\ dpc = "returned"
    /\ Len(log) = 18
    /\ log[18].event.status = "complete"
    /\ Len(sent) = 13

\* C9: an event is forwarded only by a step that checked the connection; the
\* step whose check reports the caller gone writes one 'cancelled' event and
\* nothing else, and from then on no event is forwarded, no agent starts and
\* the driver does nothing: the 'cancelled' event is the last of the stream.
C9_CancelStopsEverything ==
    [][ /\ (mode = "stream" /\ sent' # sent /\ outcome' # "aborted") =>
              /\ ~IsNone(pending) /\ IsNone(pending')
              /\ \/ sent' = Append(sent, Val(pending)) /\ outcome' # "cancelled"
                 \/ sent' = Append(sent, DisconnectedEvent) /\ outcome' = "cancelled"
        /\ (outcome' = "cancelled" /\ outcome # "cancelled") =>
              /\ sent' = Append(sent, DisconnectedEvent)
              /\ \A i \in 1..Len(sent) : EventStatus(sent[i]) # "cancelled"
              /\ log' = log
        /\ outcome = "cancelled" =>
              /\ outcome' = "cancelled"
              /\ sent' = sent /\ log' = log /\ dpc' = dpc /\ prov' = prov
      ]_vars

\* the caller left after the first agent: the stream ends with 'cancelled'
C9_Witness ==
    /\ outcome = "cancelled"
    /\ idx >= 1
    /\ Len(sent) >= 3
    /\ sent[Len(sent)] = DisconnectedEvent

-----------------------------------------------------------------------------
(* Specification SpecProgress: calculate_progress while agents are added to  *)
(* agents_completed and to validation_results, in any order.  arg is the     *)
(* state, ret the progress computed on it.                                   *)

InitProgress ==
    /\ RequestIdle
    /\ arg = Some([agents_completed |-> Some(<<>>),
                   validation_results |-> Some(EmptyDict)])
    /\ ret = Some(calculate_progress(Val(arg)))

\* an agent succeeded: its name is appended to agents_completed
ProgressComplete(a) ==
    /\ a \notin Range(Val(Val(arg)["agents_completed"]))
    /\ arg' = Some(MarkCompleted(Val(arg), a))
    /\ ret' = Some(calculate_progress(Val(arg')))
    /\ UNCHANGED requestVars

\* validate_agent_result ran on the agent's result, with verdict valid
ProgressValidate(a, valid) ==
    /\ a \notin DOMAIN Val(Val(arg)["validation_results"])
    /\ arg' = Some(DictSet(Val(arg), "validation_results",
                           Some(DictSet(Val(Val(arg)["validation_results"]), a, valid))))
    /\ ret' = Some(calculate_progress(Val(arg')))
    /\ UNCHANGED requestVars

NextProgress ==
    \/ \E a \in AgentSet : ProgressComplete(a)
    \/ \E a \in AgentSet : \E valid \in BOOLEAN : ProgressValidate(a, valid)

SpecProgress == InitProgress /\ [][NextProgress]_vars

AllCompletedAndValidated(st) ==
    /\ Range(Val(st["agents_completed"])) = AgentSet
    /\ DOMAIN Val(st["validation_results"]) = AgentSet

\* C11: the progress is an integer in 0..100, does not decrease when an agent
\* is added to agents_completed or to validation_results, and is exactly 100
\* once the five agents are completed and validated.
C11_ProgressMonotoneTo100 ==
    [][ /\ Val(ret) \in 0..100 /\ Val(ret') \in 0..100
        /\ Val(ret') >= Val(ret)
        /\ AllCompletedAndValidated(Val(arg')) => Val(ret') = 100
      ]_vars

\* the five agents are completed and validated, and the progress is 100
C11_Witness ==
    /\ ~IsNone(arg) /\ "agents_completed" \in DOMAIN Val(arg)
    /\ AllCompletedAndValidated(Val(arg))
    /\ ret = Some(100)

-----------------------------------------------------------------------------
(* Specification SpecFallback: execute_with_fallback, one awaited source at  *)
(* a time.  arg is the chain: what each source (the primary first) does when *)
(* it is awaited; log lists the sources awaited so far, by their place in    *)
(* the chain; idx is the number of sources tried; state holds the local      *)
(* errors; ret is the outcome of the call once it has ended.                 *)

FallbackDataType == "price"

\* what a source does when awaited: raise, return None, return an empty
\* result, return data
SourceOutcomes ==
    {Raised(<<"timed out">>), Raised(<<"no data">>), ReturnedNone,
     Returned(EmptyDict), Returned([source |-> Some("a")]),
     Returned([source |-> Some("b")])}

InitFallback ==
    /\ mode = "none" /\ pc = "idle" /\ req = None /\ symbol = <<>>
    /\ results = EmptyDict /\ final_state = EmptyDict
    /\ dpc = "none" /\ pending = None /\ sent = <<>>
    /\ outcome = "none" /\ response = None /\ prov = EmptyDict
    /\ arg \in UNION {[1..n -> SourceOutcomes] : n \in 1..MaxSources}
    /\ state = [errors |-> <<>>]
    /\ log = <<>>
    /\ idx = 0
    /\ ret = None

\* the mutant goes on to the next source after a source returned a result
FallbackCallKeepGoing ==
    /\ IsNone(ret) /\ idx < Len(arg)
    /\ LET n == idx + 1
           r == arg[n]
       IN /\ log' = Append(log, n)
          /\ ret' = IF r.ok /\ ~IsNone(r.value) /\ n = Len(arg) THEN Some(r) ELSE None
          /\ state' = IF r.ok THEN state
                      ELSE [errors |-> Append(state.errors,
                               (IF n = 1 THEN <<"Primary source failed: ">>
                                ELSE <<"Fallback ", ToString(n - 1), " failed: ">>)
                               \o r.error)]
    /\ idx' = idx + 1
    /\ UNCHANGED <<mode, pc, req, symbol, results, final_state, dpc, pending,
                   sent, outcome, response, prov, arg>>

\* one try block: the next source of the chain is awaited; its non-None
\* result is returned, its exception is recorded
FallbackCall ==
    /\ IsNone(ret) /\ idx < Len(arg)
    /\ LET n == idx + 1
           r == arg[n]
       IN /\ log' = Append(log, n)
          /\ ret' = IF r.ok /\ ~IsNone(r.value) THEN Some(r) ELSE None
          /\ state' = IF r.ok THEN state
                      ELSE [errors |-> Append(state.errors,
                               (IF n = 1 THEN <<"Primary source failed: ">>
                                ELSE <<"Fallback ", ToString(n - 1), " failed: ">>)
                               \o r.error)]
    /\ idx' = idx + 1
    /\ UNCHANGED <<mode, pc, req, symbol, results, final_state, dpc, pending,
                   sent, outcome, response, prov, arg>>

\* the mutant reports the last failure only
FallbackRaiseLastOnly ==
    /\ IsNone(ret) /\ idx = Len(arg)
    /\ ret' = Some(Raised(<<"All data sources failed for ", FallbackDataType, ": ">>
                          \o (IF Len(state.errors) = 0 THEN <<>>
                              ELSE state.errors[Len(state.errors)])))
    /\ UNCHANGED <<mode, pc, req, symbol, state, results, final_state, dpc, idx,
                   pending, log, sent, outcome, response, prov, arg>>

\* every source was tried and none returned a result: the aggregate error
FallbackRaise ==
    /\ IsNone(ret) /\ idx = Len(arg)
    /\ ret' = Some(Raised(<<"All data sources failed for ", FallbackDataType, ": ">>
                          \o Join(state.errors, <<"; ">>)))
    /\ UNCHANGED <<mode, pc, req, symbol, state, results, final_state, dpc, idx,
                   pending, log, sent, outcome, response, prov, arg>>

NextFallback == FallbackCall \/ FallbackRaise

SpecFallback == InitFallback /\ [][NextFallback]_vars

\* a source fails by raising or by returning None
SourceFailed(r) == ~r.ok \/ IsNone(r.value)

\* C12: the primary is awaited first and the sources are awaited in chain
\* order, each at most once; a source is awaited only after every source
\* before it failed (raised or returned None), so none is awaited after the
\* first one that returned a result; the call returns the result of that
\* first successful source, which is also what execute_with_fallback gives
\* on the chain as a whole.
C12_FallbackOrder ==
    /\ \A j \in 1..Len(log) : log[j] = j
    /\ \A j \in 1..Len(log) : \A k \in 1..(j - 1) : SourceFailed(arg[k])
    /\ ~IsNone(ret) =>
          /\ Val(ret) = execute_with_fallback(FallbackDataType, arg)
          /\ Val(ret).ok =>
                /\ ~SourceFailed(arg[Len(log)])
                /\ Val(ret) = arg[Len(log)]

\* the primary raised, the first fallback returned None, the second fallback
\* returned data and the call returned it
C12_Witness ==
    /\ Len(arg) = 3 /\ Len(log) = 3
    /\ ~arg[1].ok /\ arg[2] = ReturnedNone
    /\ ret = Some(Returned([source |-> Some("b")]))

\* the messages of the sources of the chain that raised, in chain order
RaisedMessages ==
    LET raised == SelectSeq(arg, LAMBDA r : ~r.ok)
    IN [i \in 1..Len(raised) |-> raised[i].error[1]]

\* the texts a source may raise with
SourceMessages == {r.error[1] : r \in {o \in SourceOutcomes : ~o.ok}}

\* C13: when the primary and every fallback fail, by raising or by returning
\* None, the call raises one aggregate error: its text starts with "All data
\* sources failed for <data type>" and carries the message of every source
\* that raised, in attempt order (a source that returned None has no message
\* and adds nothing).
C13_AggregateError ==
    (idx = Len(arg) /\ \A k \in 1..Len(arg) : SourceFailed(arg[k])) =>
        /\ ~IsNone(ret) =>
              /\ ~Val(ret).ok
              /\ SubSeq(Val(ret).error, 1, 2)
                    = <<"All data sources failed for ", FallbackDataType>>
              /\ SelectSeq(Val(ret).error, LAMBDA t : t \in SourceMessages)
                    = RaisedMessages
        /\ IsNone(ret) => ENABLED FallbackRaise

\* three sources raised and the aggregate error carries the three messages
C13_Witness ==
    /\ Len(arg) = 3
    /\ \A k \in 1..3 : ~arg[k].ok
    /\ arg[1] # arg[2]
    /\ ~IsNone(ret) /\ ~Val(ret).ok
    /\ Len(RaisedMessages) = 3

-----------------------------------------------------------------------------
(* Specification SpecRetry: a call of a function wrapped by the decorator    *)
(* create_retry_decorator builds (tenacity's retry with stop_after_attempt   *)
(* and retry_if_exception_type).  arg holds the max_attempts argument and    *)
(* settings.max_retries; log lists what each invocation of the wrapped       *)
(* function did; idx is tenacity's attempt number; ret is the outcome of the *)
(* call once it has ended.                                                   *)

\* retry_exceptions, when none is given
retry_exceptions ==
    {"APITimeoutError", "ServiceUnavailableError", "ConnectionError",
     "asyncio.TimeoutError"}

\* the exception classes the wrapped function raises in the model, each with
\* the class it derives from
ExceptionBases ==
    [APITimeoutError |-> "StockDataError",
     ServiceUnavailableError |-> "StockDataError",
     DataNotFoundError |-> "StockDataError",
     APIRateLimitError |-> "StockDataError",
     StockDataError |-> "Exception",
     ConnectionError |-> "OSError",
     ConnectionResetError |-> "ConnectionError",
     ValueError |-> "Exception"]

RaisedKinds ==
    {"APITimeoutError", "ServiceUnavailableError", "ConnectionError",
     "ConnectionResetError", "asyncio.TimeoutError", "DataNotFoundError",
     "APIRateLimitError", "ValueError"}

\* what one invocation of the wrapped function does
AttemptOutcomes == {Returned("data"), ReturnedNone} \cup {Raised(<<k>>) : k \in RaisedKinds}

\* the mutant retries after every exception
RetryAnyException(kind) == TRUE

\* retry_if_exception_type(tuple(retry_exceptions)): isinstance of one of them
retry_if_exception_type(kind) ==
    \/ kind \in retry_exceptions
    \/ kind \in DOMAIN ExceptionBases /\ ExceptionBases[kind] \in retry_exceptions

\* max_attempts = max_attempts or settings.max_retries
max_attempts == IF IsNone(arg.max_attempts) \/ Val(arg.max_attempts) = 0
                THEN arg.max_retries ELSE Val(arg.max_attempts)

InitRetry ==
    /\ RequestIdle
    /\ arg \in [max_attempts : {None} \cup {Some(n) : n \in 1..MaxAttempts},
                max_retries : 1..MaxAttempts]
    /\ ret = None

\* one iteration of tenacity's loop: the wrapped function is invoked; its
\* result is returned; its exception is raised again when it is not of a
\* retried type, ends the call with RetryError when the attempts are used up,
\* and otherwise leads to the next attempt
RetryAttempt(o) ==
    /\ IsNone(ret)
    /\ log' = Append(log, o)
    /\ idx' = idx + 1
    /\ ret' = IF o.ok THEN Some(o)
              ELSE IF ~retry_if_exception_type(o.error[1]) THEN Some(o)
              ELSE IF idx' >= max_attempts THEN Some(Raised(<<"RetryError">>))
              ELSE None
    /\ UNCHANGED <<mode, pc, req, symbol, state, results, final_state, dpc,
                   pending, sent, outcome, response, prov, arg>>

NextRetry == \E o \in AttemptOutcomes : RetryAttempt(o)

SpecRetry == InitRetry /\ [][NextRetry]_vars

\* the whitelist of the claim: timeout, service unavailable, connection error
TransientFailure(o) ==
    /\ ~o.ok
    /\ o.error[1] \in {"APITimeoutError", "asyncio.TimeoutError",
                       "ServiceUnavailableError", "ConnectionError",
                       "ConnectionResetError"}

\* C14: with an attempt budget of N >= 1 (the max_attempts argument or, when
\* none is given, settings.max_retries), a call through the retry wrapper
\* invokes the wrapped function at most N times; every invocation but the last
\* failed with a timeout, a service-unavailable or a connection error; a
\* failure of another kind ends the call at once with that failure; a success
\* ends the call with that result; the call goes on while neither happened and
\* attempts are left.
C14_RetryOnlyTransient ==
    /\ Len(log) <= max_attempts
    /\ \A j \in 1..(Len(log) - 1) : TransientFailure(log[j])
    /\ Len(log) > 0 =>
          LET last == log[Len(log)] IN
          /\ last.ok => ret = Some(last)
          /\ (~last.ok /\ ~TransientFailure(last)) => ret = Some(last)
          /\ TransientFailure(last) =>
                IF Len(log) < max_attempts THEN IsNone(ret)
                ELSE ~IsNone(ret) /\ ~Val(ret).ok

\* two timeouts, then a failure of another kind on the third invocation
C14_Witness ==
    /\ Len(log) = 3
    /\ TransientFailure(log[1]) /\ TransientFailure(log[2])
    /\ log[3] = Raised(<<"DataNotFoundError">>)
    /\ ret = Some(log[3])

-----------------------------------------------------------------------------
(* Further properties of one request, checked under Spec *)

\* C15: whatever the providers answer, a response produced by orchestrate for
\* a valid symbol carries the requested symbol, a company name that is not
\* None and a sentiment summary that is not None.
C15_ResponseCarriesSymbolNameSummary ==
    (mode = "parallel" /\ ~IsNone(response)) =>
        /\ Val(response).symbol = req
        /\ ~IsNone(Val(response).company_name)
        /\ ~IsNone(Val(response).sentiment_summary)

\* every provider failed and orchestrate still answered, with the name made
\* from the symbol
C15_Witness ==
    /\ mode = "parallel" /\ ~IsNone(response)
    /\ AllProvidersFail
    /\ Val(response).symbol = Some(<<"A", "B">>)
    /\ Val(response).company_name = Some(<<"A", "B", " Corporation">>)
    /\ Val(Val(response).sentiment_summary).overall_score = "neutral"

\* C16: a price that is present in the response is a positive number,
\* whatever the price provider returned.
C16_ResponsePricePositive ==
    (~IsNone(response) /\ ~IsNone(Val(response).price)) =>
        Val(Val(response).price) > 0

-----------------------------------------------------------------------------
(* Further properties of the merge loop, checked under SpecMerge *)

\* the identifiers under data_sources in the dict d, none when the key is
\* missing or holds None
SourcesOf(d) ==
    IF "data_sources" \in DOMAIN d THEN Range(ListOrEmpty(d["data_sources"])) ELSE {}

NoDuplicate(list) == Cardinality(Range(list)) = Len(list)

\* C17: the merge of data_sources is a set union: after a result was merged
\* the accumulator holds the identifiers it held before and those of the
\* result, each once; merging the same result again changes nothing; merging
\* the last result and any other result in the other order gives the same
\* set of identifiers.
C17_SourcesMergeIsSetUnion ==
    (~IsNone(arg) /\ Val(arg).kind = "dict") =>
        LET before == Val(ret)
            r == Val(arg)
        IN /\ SourcesOf(final_state) = SourcesOf(before) \cup SourcesOf(r.dict)
           /\ "data_sources" \in DOMAIN r.dict =>
                 NoDuplicate(Val(final_state["data_sources"]))
           /\ SourcesOf(MergeResult(final_state, r)) = SourcesOf(final_state)
           /\ "data_sources" \in DOMAIN r.dict =>
                 NoDuplicate(Val(MergeResult(final_state, r)["data_sources"]))
           /\ \A q \in {m \in MergeResults : DOMAIN m.dict \subseteq {"data_sources"}} :
                 SourcesOf(MergeResult(MergeResult(before, q), r))
                    = SourcesOf(MergeResult(MergeResult(before, r), q))

\* the accumulator held s1, a result listing s2 and s1 was merged, and the
\* accumulator holds s1 and s2 once each
C17_Witness ==
    /\ ~IsNone(arg) /\ Val(arg).kind = "dict"
    /\ SourcesOf(Val(ret)) = {"s1"}
    /\ "data_sources" \in DOMAIN Val(arg).dict
    /\ Val(arg).dict["data_sources"] = Some(<<"s2", "s1">>)
    /\ SourcesOf(final_state) = {"s1", "s2"}
    /\ Len(Val(final_state["data_sources"])) = 2

-----------------------------------------------------------------------------
(* Specification SpecSentiment: fetch_comprehensive_sentiment on the         *)
(* articles of the two news sources.  Polarities are counted in hundredths:  *)
(* 15 stands for 0.15.  An article is its title and what                     *)
(* analyze_article_sentiment does on it: raise, or give a polarity.  arg      *)
(* holds the outcomes of fetch_news_articles and fetch_rss_news and          *)
(* settings.max_news_articles; ret is the outcome of the call.               *)

ArticleTitles == {"Up", "up!", "Down"}

\* re.sub(r'[^\w\s]', '', title).lower()[:50]
TitleKey(title) ==
    CASE title = "Up" -> "up"
      [] title = "up!" -> "up"
      [] title = "Down" -> "down"

\* what analyze_article_sentiment does on an article: None when it raises,
\* else the polarity of the item it returns
ArticleAnalyses == {None, Some(-16), Some(15), Some(16)}

Articles == [title : ArticleTitles, analysis : ArticleAnalyses]

\* sentiment_score_to_enum, on a sum of n polarities standing for their mean
sentiment_score_to_enum(sum, n) ==
    IF sum >= 50 * n THEN "very_positive"
    ELSE IF sum >= 15 * n THEN "positive"
    ELSE IF sum <= (-50) * n THEN "very_negative"
    ELSE IF sum <= (-15) * n THEN "negative"
    ELSE "neutral"

\* the item analyze_article_sentiment returns
AnalyzedItem(article) ==
    [title |-> article.title, polarity |-> Val(article.analysis),
     sentiment_score |-> sentiment_score_to_enum(Val(article.analysis), 1)]

RECURSIVE SumSeq(_)
SumSeq(s) == IF Len(s) = 0 THEN 0 ELSE Head(s) + SumSeq(Tail(s))

RECURSIVE unique_articles(_, _)
\* the loop that keeps the first article of every title key
unique_articles(all_articles, seen_titles) ==
    IF Len(all_articles) = 0 THEN <<>>
    ELSE LET article == Head(all_articles)
             title_key == TitleKey(article.title)
         IN IF title_key \in seen_titles
            THEN unique_articles(Tail(all_articles), seen_titles)
            ELSE <<article>> \o unique_articles(Tail(all_articles),
                                                seen_titles \cup {title_key})

\* the largest r with r * r <= n
FloorSqrt(n) == CHOOSE r \in 0..n : r * r <= n /\ (r + 1) * (r + 1) > n

\* max(0, 1 - stdev(polarities) / 2), in hundredths, the standard deviation
\* rounded down to a hundredth
Confidence(polarities) ==
    LET n == Len(polarities)
        sum == SumSeq(polarities)
        squares == SumSeq([i \in 1..n |-> polarities[i] * polarities[i]])
        polarity_std == IF n > 1
                        THEN FloorSqrt((n * squares - sum * sum) \div (n * (n - 1)))
                        ELSE 0
        c == 100 - polarity_std \div 2
    IN IF c < 0 THEN 0 ELSE c

NeutralSummary(text) == SentimentSummary("neutral", 0, 0, 0, 0, text)

\* the mutant counts as neutral the items that are not positive
CountNeutralAsNotPositive(polarities, positive_count, negative_count) ==
    Len(polarities) - positive_count

\* neutral_count = len(polarities) - positive_count - negative_count
neutral_count(polarities, positive_count, negative_count) ==
    Len(polarities) - positive_count - negative_count

\* fetch_comprehensive_sentiment, news and rss being the outcomes of the two
\* fetches and limit settings.max_news_articles
fetch_comprehensive_sentiment_of(news, rss, limit) ==
    LET all_articles == (IF news.ok THEN Val(news.value) ELSE <<>>)
                        \o (IF rss.ok THEN Val(rss.value) ELSE <<>>)
    IN IF Len(all_articles) = 0
       THEN Returned([items |-> <<>>,
                      summary |-> NeutralSummary(<<"No sentiment data available">>)])
       ELSE
       LET unique == unique_articles(all_articles, {})
           taken == SubSeq(unique, 1, IF Len(unique) < limit THEN Len(unique) ELSE limit)
           analyzed == SelectSeq(taken, LAMBDA a : Len(a.analysis) = 1)
           sentiment_items == [i \in 1..Len(analyzed) |-> AnalyzedItem(analyzed[i])]
       IN IF Len(sentiment_items) = 0
          THEN Returned([items |-> <<>>,
                         summary |-> NeutralSummary(<<"Failed to analyze sentiment">>)])
          ELSE
          LET polarities == [i \in 1..Len(sentiment_items) |-> sentiment_items[i].polarity]
              positive_count == Cardinality({i \in 1..Len(polarities) : polarities[i] > 15})
              negative_count == Cardinality({i \in 1..Len(polarities) : polarities[i] < -15})
          IN Returned([items |-> sentiment_items,
                       summary |->
                          SentimentSummary(
                              sentiment_score_to_enum(SumSeq(polarities), Len(polarities)),
                              Confidence(polarities),
                              positive_count, negative_count,
                              neutral_count(polarities, positive_count, negative_count),
                              <<"Based on ", ToString(Len(sentiment_items)),
                                " articles: ">>)])

\* the articles of the two sources together are at most MaxArticles; either
\* fetch may fail, which fetch_comprehensive_sentiment logs and passes over
InitSentiment ==
    /\ RequestIdle
    /\ \E n \in 0..MaxArticles : \E all \in [1..n -> Articles] : \E k \in 0..n :
       \E news_fails \in BOOLEAN, rss_fails \in BOOLEAN : \E limit \in {1, 20} :
          arg = [news |-> IF news_fails THEN Raised(<<"NewsAPI error">>)
                          ELSE Returned(SubSeq(all, 1, k)),
                 rss |-> IF rss_fails THEN Raised(<<"RSS error">>)
                         ELSE Returned(SubSeq(all, k + 1, n)),
                 max_news_articles |-> limit]
    /\ ret = None

SentimentCall ==
    /\ IsNone(ret)
    /\ ret' = Some(fetch_comprehensive_sentiment_of(arg.news, arg.rss,
                                                    arg.max_news_articles))
    /\ UNCHANGED <<mode, pc, req, symbol, state, results, final_state, dpc, idx,
                   pending, log, sent, outcome, response, prov, arg>>

NextSentiment == SentimentCall

SpecSentiment == InitSentiment /\ [][NextSentiment]_vars

\* the articles the call was given: those of the fetches that did not fail
InputArticles ==
    (IF arg.news.ok THEN Val(arg.news.value) ELSE <<>>)
    \o (IF arg.rss.ok THEN Val(arg.rss.value) ELSE <<>>)

\* C18: the summary fetch_comprehensive_sentiment returns has
\* positive_count + negative_count + neutral_count equal to the number of
\* sentiment items returned, every count non-negative; for the empty article
\* set the three counts are 0, the label is neutral and the confidence is 0
C18_SentimentCountsAddUp ==
    (Len(ret) = 1 /\ Val(ret).ok) =>
        LET r == Val(Val(ret).value)
            s == r.summary
        IN /\ s.positive_count + s.negative_count + s.neutral_count = Len(r.items)
           /\ s.positive_count >= 0
           /\ s.negative_count >= 0
           /\ s.neutral_count >= 0
           /\ Len(InputArticles) = 0 =>
                 /\ s.positive_count = 0
                 /\ s.negative_count = 0
                 /\ s.neutral_count = 0
                 /\ s.overall_score = "neutral"
                 /\ s.confidence = 0

\* three articles given, two items returned, one negative and one neutral
C18_Witness ==
    /\ Len(ret) = 1
    /\ Val(ret).ok
    /\ Len(Val(Val(ret).value).items) = 2
    /\ Val(Val(ret).value).summary.positive_count = 0
    /\ Val(Val(ret).value).summary.negative_count = 1
    /\ Val(Val(ret).value).summary.neutral_count = 1
    /\ Len(InputArticles) = 3

-----------------------------------------------------------------------------
(* Further properties of the parallel coordinator, under Spec *)

\* C19: running a Task Agent does not modify the state object it was given:
\* while the five tasks of the parallel coordinator run, every field of the
\* state they were started with, agents_completed included, keeps its
\* contents, and the result an agent has returned is not changed by the
\* agents that end after it
C19_AgentsLeaveInputState ==
    [][(pc = "gather" /\ pc' = "gather") =>
          /\ state' = state
          /\ \A b \in DOMAIN results : results'[b] = results[b]]_vars

\* the state the five agents were started with
RootState == root_node([symbol |-> Some(symbol)])

\* agent a wrote key k: its result holds under k a value the state it was
\* started with did not hold
Wrote(a, k) ==
    /\ k \in DOMAIN results[a]
    /\ k \in DOMAIN RootState => results[a][k] # RootState[k]

\* C20: after the parallel coordinator has merged the five results, every key
\* that exactly one agent wrote holds the value that agent wrote; the status
\* field of every agent holds the 'success' or 'failed' that agent set, and
\* partial_data is true if any agent set it to true
C20_MergeKeepsEachAgentsWrites ==
    (mode = "parallel" /\ pc \in {"format", "done"} /\ DOMAIN results = AgentSet) =>
        /\ \A a \in AgentSet : \A k \in DOMAIN results[a] :
              (Wrote(a, k) /\ \A b \in AgentSet \ {a} : ~Wrote(b, k)) =>
                  DictGet(final_state, k) = results[a][k]
        /\ \A a \in AgentSet :
              DictGet(final_state, StatusKey(a)) = results[a][StatusKey(a)]
        /\ (\E a \in AgentSet : DictGet(results[a], "partial_data") = Some(TRUE)) =>
              DictGet(final_state, "partial_data") = Some(TRUE)

\* the parallel coordinator has returned its merged state
Merged == mode = "parallel" /\ pc \in {"format", "done"} /\ DOMAIN results = AgentSet

\* C21: the state the parallel coordinator returns after the merge has a
\* validation_results entry for each of price, fundamentals, analyst,
\* sentiment and company, and its progress_percentage equals
\* min(100, 85*completed/5 + 10*validated/5 + (5 if completed = 5 else 0))
C21_CoordinatorValidatesAndComputesProgress ==
    Merged =>
        LET validation_results ==
                Val(DictGetDefault(final_state, "validation_results", EmptyDict))
            completed == Len(Val(DictGetDefault(final_state, "agents_completed", <<>>)))
            validated == Cardinality(DOMAIN validation_results)
            expected == (85 * completed + 10 * validated) \div 5
                        + (IF completed = 5 THEN 5 ELSE 0)
        IN /\ DOMAIN validation_results = AgentSet
           /\ DictGet(final_state, "progress_percentage")
                 = Some(IF expected > 100 THEN 100 ELSE expected)

-----------------------------------------------------------------------------
(* Specification SpecGather: orchestrating_agent when a task may end with an *)
(* exception.  results holds the entries asyncio.gather returns, by agent;   *)
(* the merge loop takes them in task order, idx counting the entries merged. *)
(* The list under processing_errors is one object as long as nobody replaces *)
(* it: state.copy() in an agent and in orchestrating_agent copies the dict,  *)
(* not the list.  An agent replaces it in its result only when it appends a  *)
(* message, so a result holds the list object of the state exactly when it   *)
(* holds the same messages.  arg tells whether final_state still holds that  *)
(* object; ret is the agent whose task raised, if any.                       *)

GatherSymbol == <<"A", "B">>

\* the exception a task ends with, as str() gives it
TaskException == <<"boom">>

\* the provider answers of SpecGather: for the price one quote or none at all
GatherAnswersFor(a) ==
    IF a = "price"
    THEN {[alpha |-> NoQuote, yfinance |-> NoQuote],
          [alpha |-> [ok |-> TRUE, price |-> 1], yfinance |-> NoQuote]}
    ELSE AnswersFor(a)

InitGather ==
    /\ mode = "parallel" /\ pc = "gather"
    /\ req = Some(GatherSymbol) /\ symbol = GatherSymbol
    /\ state = root_node([symbol |-> Some(GatherSymbol)])
    /\ results = EmptyDict /\ final_state = EmptyDict
    /\ dpc = "none" /\ idx = 0 /\ pending = None /\ log = <<>> /\ sent = <<>>
    /\ outcome = "none" /\ response = None /\ prov = EmptyDict
    /\ arg = None /\ ret = None

\* the task of agent a returns a dict
GatherTask(a) ==
    /\ pc = "gather" /\ a \notin DOMAIN results
    /\ \E ans \in GatherAnswersFor(a) :
        LET r == RunAgent(a, state, symbol, ans) IN
        /\ results' = [b \in (DOMAIN results) \cup {a} |->
                          IF b = a THEN DictResult(r)
                          ELSE IF results[b].kind = "dict"
                          THEN DictResult(SharingCompleted(results[b].dict, r))
                          ELSE results[b]]
        /\ state' = SharingCompleted(state, r)
    /\ UNCHANGED <<mode, pc, req, symbol, final_state, dpc, idx, pending, log,
                   sent, outcome, response, prov, arg, ret>>

\* the task of agent a ends with an exception, which gather returns in its
\* place; at most one task does
GatherTaskRaises(a) ==
    /\ pc = "gather" /\ a \notin DOMAIN results
    /\ IsNone(ret)
    /\ results' = [b \in (DOMAIN results) \cup {a} |->
                      IF b = a THEN ExceptionResult(TaskException) ELSE results[b]]
    /\ ret' = Some(a)
    /\ UNCHANGED <<mode, pc, req, symbol, state, final_state, dpc, idx, pending,
                   log, sent, outcome, response, prov, arg>>

\* final_state = state.copy()
GatherMergeStart ==
    /\ pc = "gather" /\ DOMAIN results = AgentSet
    /\ final_state' = state
    /\ arg' = Some("processing_errors" \in DOMAIN state)
    /\ idx' = 0
    /\ pc' = "merge"
    /\ UNCHANGED <<mode, req, symbol, state, results, dpc, pending, log, sent,
                   outcome, response, prov, ret>>

\* the dict d holds the processing_errors list object of the state
HoldsStateErrors(d) ==
    /\ "processing_errors" \in DOMAIN d
    /\ "processing_errors" \in DOMAIN state
    /\ d["processing_errors"] = state["processing_errors"]

\* one turn of "for i, result in enumerate(results)"
GatherMergeResult ==
    /\ pc = "merge" /\ idx < Len(AgentNames)
    /\ LET r == results[AgentNames[idx + 1]] IN
       IF r.kind = "dict"
       THEN /\ final_state' = MergeKeys(final_state, r.dict)
            /\ arg' = Some(Val(arg) /\ "processing_errors" \notin DOMAIN r.dict)
            /\ UNCHANGED <<state, results>>
       ELSE IF "processing_errors" \notin DOMAIN final_state
       THEN /\ final_state' = DictSet(final_state, "processing_errors",
                                      Some(<<r.error>>))
            /\ UNCHANGED <<state, results, arg>>
       ELSE LET errors == Some(Append(Val(final_state["processing_errors"]), r.error))
            IN /\ final_state' = DictSet(final_state, "processing_errors", errors)
               /\ IF Val(arg)
                  THEN /\ state' = DictSet(state, "processing_errors", errors)
                       /\ results' =
                             [b \in DOMAIN results |->
                                 IF results[b].kind = "dict"
                                    /\ HoldsStateErrors(results[b].dict)
                                 THEN DictResult(DictSet(results[b].dict,
                                                         "processing_errors", errors))
                                 ELSE results[b]]
                  ELSE UNCHANGED <<state, results>>
               /\ UNCHANGED arg
    /\ idx' = idx + 1
    /\ pc' = IF idx' = Len(AgentNames) THEN "merged" ELSE "merge"
    /\ UNCHANGED <<mode, req, symbol, dpc, pending, log, sent, outcome, response,
                   prov, ret>>

NextGather ==
    \/ \E a \in AgentSet : GatherTask(a)
    \/ \E a \in AgentSet : GatherTaskRaises(a)
    \/ GatherMergeStart
    \/ GatherMergeResult

SpecGather == InitGather /\ [][NextGather]_vars

\* the number of entries of list equal to x
Occurrences(list, x) == Cardinality({i \in 1..Len(list) : list[i] = x})

\* the dicts among the gathered results, in task order
ReturnedDicts ==
    SelectSeq([i \in 1..Len(AgentNames) |-> results[AgentNames[i]]],
              LAMBDA r : r.kind = "dict")

\* the merge of the returned dicts alone into the state the agents were given
MergeOfReturned == MergeAll(RootState, ReturnedDicts)

\* C22: when one task of the parallel coordinator ended with an exception and
\* the others returned states, then whatever the place of that task in the
\* result order the merged processing_errors holds the exception's message
\* exactly once, and every other merged key has the value the merge of the
\* other results alone gives it
C22_TaskExceptionRecordedOnce ==
    (pc = "merged" /\ ~IsNone(ret)) =>
        /\ "processing_errors" \in DOMAIN final_state
        /\ Occurrences(Val(final_state["processing_errors"]), TaskException) = 1
        /\ \A k \in (DOMAIN final_state \cup DOMAIN MergeOfReturned)
                       \ {"processing_errors"} :
              DictGet(final_state, k) = DictGet(MergeOfReturned, k)

-----------------------------------------------------------------------------
(* Specification SpecAgent: the five task agents, each called once, in any   *)
(* order, on the state the agent before it returned, its provider call       *)
(* returning or raising.  arg is the last call, ret what it returned.        *)

\* str() of the exceptions a provider call may raise
ExceptionMessages == {<<"timeout">>, <<"rate limit exceeded">>}

\* the outcomes of the awaited fetch of agent a; the analyst agent awaits two
AgentFetches(a) ==
    LET raised == {Raised(m) : m \in ExceptionMessages} IN
    CASE a = "price" -> {Returned(PriceData(1, "alpha_vantage"))} \cup raised
      [] a = "fundamentals" -> {Returned(FinancialMetrics({"market_cap"}))} \cup raised
      [] a = "analyst" ->
            [ratings : {Returned(<<AnalystRating(<<"Consensus">>, <<"Buy">>)>>),
                        Returned(<<>>)} \cup raised,
             earnings : {Returned(<<EarningsData("TTM")>>)} \cup raised]
      [] a = "sentiment" -> {fetch_comprehensive_sentiment("articles")} \cup raised
      [] a = "company" -> {Returned(<<"Acme Inc.">>)} \cup raised

\* agent_func(state), the awaited fetch ending as f
CallAgent(a, st, f) ==
    CASE a = "price" -> price_agent(st, f)
      [] a = "fundamentals" -> fundamentals_agent(st, f)
      [] a = "analyst" -> analyst_agent(st, f.ratings, f.earnings)
      [] a = "sentiment" -> sentiment_agent(st, f)
      [] a = "company" -> company_info_agent(st, f)

InitAgent ==
    /\ mode = "none" /\ pc = "idle"
    /\ req = Some(GatherSymbol) /\ symbol = GatherSymbol
    /\ state = root_node([symbol |-> Some(GatherSymbol)])
    /\ results = EmptyDict /\ final_state = EmptyDict
    /\ dpc = "none" /\ idx = 0 /\ pending = None /\ log = <<>> /\ sent = <<>>
    /\ outcome = "none" /\ response = None /\ prov = EmptyDict
    /\ arg = None /\ ret = None

AgentCall(a) ==
    /\ \A i \in 1..Len(log) : log[i].agent # a
    /\ \E f \in AgentFetches(a) :
          /\ arg' = Some([agent |-> a, state |-> state, fetched |-> f])
          /\ ret' = Some(Returned(CallAgent(a, state, f)))
          /\ state' = CallAgent(a, state, f)
    /\ log' = Append(log, Ran(a))
    /\ idx' = idx + 1
    /\ UNCHANGED <<mode, pc, req, symbol, results, final_state, dpc, pending,
                   sent, outcome, response, prov>>

NextAgent == \E a \in AgentSet : AgentCall(a)

SpecAgent == InitAgent /\ [][NextAgent]_vars

\* the payload fields of an agent
PayloadKeys(a) ==
    CASE a = "price" -> {"price_data"}
      [] a = "fundamentals" -> {"financial_metrics"}
      [] a = "analyst" -> {"analyst_ratings", "earnings_data"}
      [] a = "sentiment" -> {"sentiment_items", "sentiment_summary"}
      [] a = "company" -> {"company_name"}

\* the error field of an agent
ErrorKey(a) ==
    CASE a = "price" -> "price_error"
      [] a = "fundamentals" -> "fundamentals_error"
      [] a = "analyst" -> "analyst_error"
      [] a = "sentiment" -> "sentiment_error"
      [] a = "company" -> "company_error"

\* the provider call of the last agent call raised
LastCallRaised ==
    /\ ~IsNone(arg)
    /\ IF Val(arg).agent = "analyst"
       THEN ~Val(arg).fetched.ratings.ok \/ ~Val(arg).fetched.earnings.ok
       ELSE ~Val(arg).fetched.ok

\* the message of the exception the last agent call caught
LastCallError ==
    IF Val(arg).agent = "analyst"
    THEN IF Val(arg).fetched.ratings.ok THEN Val(arg).fetched.earnings.error
         ELSE Val(arg).fetched.ratings.error
    ELSE Val(arg).fetched.error

\* the list text ends with the list suffix
EndsWith(text, suffix) ==
    /\ Len(text) >= Len(suffix)
    /\ SubSeq(text, Len(text) - Len(suffix) + 1, Len(text)) = suffix

\* C23: when the provider call of a task agent raises, the state the agent
\* returns has the error message appended to processing_errors, the agent's
\* payload fields present, partial_data true and the agent's status 'failed',
\* and the agent's name is not added to agents_completed
C23_FailedAgentRecordsFailure ==
    LastCallRaised =>
        LET a == Val(arg).agent
            before == Val(arg).state
            after == Val(Val(ret).value)
            errors_before == Val(before["processing_errors"])
            errors_after == Val(after["processing_errors"])
        IN /\ Len(errors_after) = Len(errors_before) + 1
           /\ SubSeq(errors_after, 1, Len(errors_before)) = errors_before
           /\ EndsWith(errors_after[Len(errors_after)], LastCallError)
           /\ PayloadKeys(a) \subseteq DOMAIN after
           /\ after["partial_data"] = Some(TRUE)
           /\ after[StatusKey(a)] = Some("failed")
           /\ after["agents_completed"] = before["agents_completed"]
           /\ a \notin Range(Val(after["agents_completed"]))

\* the coordination metadata every agent may write
CoordinationKeys ==
    {"data_sources", "agents_completed", "processing_errors", "partial_data"}

\* C24: whatever the provider call did, return or raise, the task agent
\* returns a state and raises nothing, and the state it returns differs from
\* the state it was given only in the agent's own payload, error and status
\* fields and in data_sources, agents_completed, processing_errors and
\* partial_data: the payload and status fields of the four other agents are
\* as they were
C24_AgentWritesOwnFieldsOnly ==
    ~IsNone(arg) =>
        /\ Val(ret).ok /\ ~IsNone(Val(ret).value)
        /\ LET a == Val(arg).agent
               before == Val(arg).state
               after == Val(Val(ret).value)
               own == PayloadKeys(a) \cup {ErrorKey(a), StatusKey(a)}
           IN /\ \A k \in (DOMAIN before \cup DOMAIN after) \ (own \cup CoordinationKeys) :
                    /\ k \in DOMAIN before /\ k \in DOMAIN after
                    /\ after[k] = before[k]
              /\ \A b \in AgentSet \ {a} :
                    \A k \in PayloadKeys(b) \cup {StatusKey(b)} :
                       DictGet(after, k) = DictGet(before, k)
                       /\ (k \in DOMAIN after <=> k \in DOMAIN before)

\* the agent called last, after the four others, caught an exception; the
\* others had left a price and a failed analyst status in the state
C24_Witness ==
    /\ idx = 5
    /\ LastCallRaised
    /\ Val(arg).agent = "company"
    /\ "price_data" \in DOMAIN Val(arg).state
    /\ Val(arg).state["analyst_status"] = Some("failed")
    /\ Val(Val(ret).value)["analyst_status"] = Some("failed")
    /\ "price_data" \in DOMAIN Val(Val(ret).value)

-----------------------------------------------------------------------------
(* Specification SpecChain: fetch_price_with_fallback down to the single     *)
(* invocations of the two adapters.  Each adapter is wrapped, from the       *)
(* inside, by the retry decorator and by handle_api_errors.  idx is the      *)
(* place in the chain of the source being called, state holds the attempt    *)
(* number of tenacity for that source and the errors the executor gathered,  *)
(* log lists every invocation, ret is the outcome of the chain.              *)

PriceChain == <<"fetch_price_alpha", "fetch_price_yfinance">>

\* what one invocation of an adapter's body does
ChainOutcomes ==
    {Returned(PriceData(1, "provider"))}
    \cup {Raised(<<k>>) : k \in {"asyncio.TimeoutError", "ConnectionError",
                                 "DataNotFoundError"}}

\* create_retry_decorator() is called without arguments
InitChain ==
    /\ mode = "none" /\ pc = "chain"
    /\ req = None /\ symbol = GatherSymbol
    /\ state = [errors |-> <<>>, attempt |-> 0]
    /\ results = EmptyDict /\ final_state = EmptyDict
    /\ dpc = "none" /\ idx = 1 /\ pending = None /\ log = <<>> /\ sent = <<>>
    /\ outcome = "none" /\ response = None /\ prov = EmptyDict
    /\ arg \in [max_attempts : {None}, max_retries : 1..MaxAttempts]
    /\ ret = None

\* the exception that leaves a source call whose last invocation raised o:
\* tenacity gives RetryError when the attempts are used up and the raised
\* exception otherwise, and handle_api_errors wraps either in a StockDataError
SourceCallError(func, o) ==
    <<"Error in ", func, ": ",
      IF retry_if_exception_type(o.error[1]) THEN "RetryError" ELSE o.error[1]>>

\* the mutant counts the attempts of the whole chain, not those of one source
ChainAttemptSharedBudget(o) ==
    /\ pc = "chain"
    /\ log' = Append(log, [source |-> PriceChain[idx], outcome |-> o])
    /\ IF o.ok
       THEN /\ ret' = Some(o)
            /\ pc' = "done"
            /\ UNCHANGED <<state, idx>>
       ELSE IF retry_if_exception_type(o.error[1]) /\ state.attempt + 1 < max_attempts
       THEN /\ state' = [state EXCEPT !.attempt = state.attempt + 1]
            /\ UNCHANGED <<pc, idx, ret>>
       ELSE LET errors ==
                    Append(state.errors,
                           (IF idx = 1 THEN <<"Primary source failed: ">>
                            ELSE <<"Fallback ", ToString(idx - 1), " failed: ">>)
                           \o SourceCallError(PriceChain[idx], o))
            IN IF idx < Len(PriceChain)
               THEN /\ state' = [errors |-> errors, attempt |-> state.attempt]
                    /\ idx' = idx + 1
                    /\ UNCHANGED <<pc, ret>>
               ELSE /\ state' = [errors |-> errors, attempt |-> state.attempt]
                    /\ ret' = Some(Raised(<<"All data sources failed for ", "price", ": ">>
                                          \o Join(errors, <<"; ">>)))
                    /\ pc' = "done"
                    /\ UNCHANGED idx
    /\ UNCHANGED <<mode, req, symbol, results, final_state, dpc, pending, sent,
                   outcome, response, prov, arg>>

\* one invocation of the body of the source being called, and what the retry
\* decorator, handle_api_errors and execute_with_fallback do with its outcome
ChainAttempt(o) ==
    /\ pc = "chain"
    /\ log' = Append(log, [source |-> PriceChain[idx], outcome |-> o])
    /\ IF o.ok
       THEN /\ ret' = Some(o)
            /\ pc' = "done"
            /\ UNCHANGED <<state, idx>>
       ELSE IF retry_if_exception_type(o.error[1]) /\ state.attempt + 1 < max_attempts
       THEN /\ state' = [state EXCEPT !.attempt = state.attempt + 1]
            /\ UNCHANGED <<pc, idx, ret>>
       ELSE LET errors ==
                    Append(state.errors,
                           (IF idx = 1 THEN <<"Primary source failed: ">>
                            ELSE <<"Fallback ", ToString(idx - 1), " failed: ">>)
                           \o SourceCallError(PriceChain[idx], o))
            IN IF idx < Len(PriceChain)
               THEN /\ state' = [errors |-> errors, attempt |-> 0]
                    /\ idx' = idx + 1
                    /\ UNCHANGED <<pc, ret>>
               ELSE /\ state' = [errors |-> errors, attempt |-> 0]
                    /\ ret' = Some(Raised(<<"All data sources failed for ", "price", ": ">>
                                          \o Join(errors, <<"; ">>)))
                    /\ pc' = "done"
                    /\ UNCHANGED idx
    /\ UNCHANGED <<mode, req, symbol, results, final_state, dpc, pending, sent,
                   outcome, response, prov, arg>>

NextChain == \E o \in ChainOutcomes : ChainAttempt(o)

SpecChain == InitChain /\ [][NextChain]_vars

\* the outcomes of the invocations of one source, in order
InvocationsOf(source) ==
    LET entries == SelectSeq(log, LAMBDA e : e.source = source)
    IN [i \in 1..Len(entries) |-> entries[i].outcome]

\* a source that was invoked and whose call has ended with a failure: a
\* failure that is not transient, or max_attempts transient failures
CallEndedFailed(invocations) ==
    /\ Len(invocations) > 0
    /\ \A i \in 1..(Len(invocations) - 1) : TransientFailure(invocations[i])
    /\ LET last == invocations[Len(invocations)] IN
       /\ ~last.ok
       /\ TransientFailure(last) => Len(invocations) = max_attempts

\* a source whose every invocation so far failed transiently, with attempts left
CallGoingOn(invocations) ==
    /\ \A i \in 1..Len(invocations) : TransientFailure(invocations[i])
    /\ Len(invocations) < max_attempts

\* C25: in the price fallback chain each source has its own retry budget: the
\* fallback is not invoked until the call of the primary has ended, after a
\* failure that is not retried or after max_attempts retried failures; the
\* fallback is then invoked up to max_attempts times itself; and the chain is
\* never run again: no invocation of the primary follows one of the fallback
C25_EachSourceOwnRetryBudget ==
    LET primary == InvocationsOf(PriceChain[1])
        fallback == InvocationsOf(PriceChain[2])
    IN /\ Len(primary) <= max_attempts
       /\ Len(fallback) <= max_attempts
       /\ \A i \in 1..Len(log) : \A j \in 1..Len(log) :
             (i < j /\ log[i].source = PriceChain[2]) => log[j].source = PriceChain[2]
       /\ Len(fallback) > 0 => CallEndedFailed(primary)
       /\ (Len(fallback) = 0 /\ CallGoingOn(primary)) => pc = "chain" /\ idx = 1
       /\ (CallEndedFailed(primary) /\ CallGoingOn(fallback)) => pc = "chain" /\ idx = 2
       /\ pc = "done" =>
             /\ ~IsNone(ret)
             /\ Val(ret).ok \/ (CallEndedFailed(primary) /\ CallEndedFailed(fallback))

\* the primary used its three attempts, and so did the fallback
C25_Witness ==
    /\ max_attempts = 3
    /\ Len(InvocationsOf(PriceChain[1])) = 3
    /\ Len(InvocationsOf(PriceChain[2])) = 3
    /\ TransientFailure(log[3].outcome)
    /\ TransientFailure(log[5].outcome)
    /\ pc = "done"

-----------------------------------------------------------------------------
(* Further properties of the streaming driver, checked under Spec *)

\* the driver is at one of its yields, the endpoint having taken the event
DriverResumable ==
    mode = "stream" /\ pc = "streaming" /\ IsNone(pending) /\ dpc # "returned"

\* the step of the driver that runs agent number idx and validates its result
DriverAgentStep == mode = "stream" /\ dpc = "processing" /\ dpc' = "agent_complete"

\* C26: a failed validation is not fatal.  When the validator of the agent
\* that just ran reports invalid, validate_agent_result records false for the
\* agent in validation_results, appends exactly one diagnostic to
\* processing_errors and changes no other field of the agent's result; and
\* the driver goes on: at a yield before an agent call the agent is there to
\* be called, at every other yield the next step of the driver can be taken,
\* and when the driver has yielded its terminal event the five agents have
\* run and the formatter was called
C26_FailedValidationNotFatal ==
    /\ [][DriverAgentStep =>
            LET a == LoopAgent(idx)
                result == RunAgent(a, state, symbol, prov'[a])
                errors == Val(result["processing_errors"])
            IN ~agent_validators(a, result).valid =>
                  /\ a \in DOMAIN Val(state'["validation_results"])
                  /\ Val(state'["validation_results"])[a] = FALSE
                  /\ Len(Val(state'["processing_errors"])) = Len(errors) + 1
                  /\ SubSeq(Val(state'["processing_errors"]), 1, Len(errors)) = errors
                  /\ DOMAIN state' = DOMAIN result
                  /\ \A k \in DOMAIN result \ {"validation_results", "processing_errors"} :
                        state'[k] = result[k]]_vars
    /\ [](DriverResumable =>
             IF dpc = "processing"
             THEN idx < Len(AgentNames) /\ AnswersFor(LoopAgent(idx)) # {}
             ELSE ENABLED (DriverProcessing \/ DriverFinalizing
                           \/ DriverFormat \/ DriverEnd))
    /\ []((mode = "stream" /\ dpc \in {"terminal", "returned"}) =>
             /\ \A a \in AgentSet : \E i \in 1..Len(log) : log[i] = Ran(a)
             /\ EventStatus(log[Len(log)].event) \in {"complete", "error"})

\* the price validation failed, the four other agents ran after it and the
\* stream ended with the complete event
C26_Witness ==
    /\ mode = "stream" /\ dpc = "returned"
    /\ Val(state["validation_results"])["price"] = FALSE
    /\ \A a \in AgentSet \ {"price"} : Val(state["validation_results"])[a] = TRUE
    /\ ~IsNone(response)
    /\ Len(sent) = 13
    /\ EventStatus(sent[13]) = "complete"

-----------------------------------------------------------------------------
(* The consensus rating *)

\* the keywords that are substrings of rating.rating.upper(), for the rating
\* texts of the model
KeywordsIn(rating_text) ==
    CASE rating_text = <<"Buy: 1, Hold: 0, Sell: 0">> -> {"BUY", "HOLD", "SELL"}
      [] rating_text = <<"Buy">> -> {"BUY"}
      [] rating_text = <<"Strong Buy">> -> {"BUY"}
      [] rating_text = <<"Hold">> -> {"HOLD"}
      [] rating_text = <<"Sell">> -> {"SELL"}
      [] OTHER -> {}

\* the key the if/elif chain counts the rating under, "" when none matches
CountedUnder(rating_text) ==
    IF "BUY" \in KeywordsIn(rating_text) THEN "BUY"
    ELSE IF "HOLD" \in KeywordsIn(rating_text) THEN "HOLD"
    ELSE IF "SELL" \in KeywordsIn(rating_text) THEN "SELL"
    ELSE ""

\* calculate_consensus_rating(ratings): max over a dict gives, among the keys
\* of greatest count, the one inserted first
calculate_consensus_rating(ratings) ==
    IF Len(ratings) = 0 THEN None
    ELSE LET keys == {CountedUnder(ratings[i].rating) : i \in 1..Len(ratings)} \ {""}
             count(k) == Cardinality({i \in 1..Len(ratings) :
                                         CountedUnder(ratings[i].rating) = k})
             first(k) == CHOOSE i \in 1..Len(ratings) :
                            /\ CountedUnder(ratings[i].rating) = k
                            /\ \A j \in 1..(i - 1) : CountedUnder(ratings[j].rating) # k
         IN IF keys = {} THEN Some("HOLD")
            ELSE Some(CHOOSE k \in keys :
                         \A other \in keys \ {k} :
                            \/ count(k) > count(other)
                            \/ count(k) = count(other) /\ first(k) < first(other))

\* C27: the consensus rating of the final response is the one
\* calculate_consensus_rating derives from the response's analyst ratings:
\* null for no rating, 'HOLD' when no rating text holds BUY, HOLD or SELL, and
\* otherwise the keyword matched by the most ratings, the first seen on a tie
C27_ConsensusFromRatings ==
    ~IsNone(response) =>
        Val(response).consensus_rating
            = calculate_consensus_rating(Val(Val(response).analyst_ratings))

-----------------------------------------------------------------------------
(* The progress values of the streamed events *)

\* the progress of the events the generator yielded so far, in order
YieldedProgress ==
    LET yields == SelectSeq(log, LAMBDA entry : entry.kind = "yield")
    IN [i \in 1..Len(yields) |-> yields[i].event.progress]

\* C28: in every event sequence of the streaming driver the progress of an
\* event is greater than or equal to the progress of the event before it
C28_ProgressNeverDecreases ==
    mode = "stream" =>
        \A i \in 1..(Len(YieldedProgress) - 1) :
            YieldedProgress[i] <= YieldedProgress[i + 1]

-----------------------------------------------------------------------------
(* Validation and the status of an agent *)

\* C29: in the streaming driver an agent reported as validated has succeeded:
\* validation_results[agent] = true, and agent_status 'success' in its
\* 'agent_complete' event, imply that the agent's status field is 'success'
C29_ValidatedImpliesSucceeded ==
    (mode = "stream" /\ "validation_results" \in DOMAIN state) =>
        \A a \in DOMAIN Val(state["validation_results"]) :
            Val(state["validation_results"])[a] => DictGet(state, StatusKey(a)) = Some("success")

-----------------------------------------------------------------------------
(* The sources listed and the sources that answered *)

\* whether the source named s returned data for this request, given what the
\* providers answered
SourceReturnedData(s) ==
    CASE s = "alpha_vantage" -> "price" \in DOMAIN prov /\ prov["price"].alpha.ok
      [] s = "yfinance" -> "price" \in DOMAIN prov /\ prov["price"].yfinance.ok
      [] s = "yfinance_fundamentals" ->
            "fundamentals" \in DOMAIN prov /\ prov["fundamentals"] = "data"
      [] s = "finnhub_analysts" ->
            "analyst" \in DOMAIN prov /\ prov["analyst"].ratings = "data"
      [] s = "yfinance_earnings" ->
            "analyst" \in DOMAIN prov /\ prov["analyst"].earnings = "data"
      [] s \in {"newsapi", "rss_feeds"} ->
            /\ "sentiment" \in DOMAIN prov
            /\ LET f == fetch_comprehensive_sentiment(prov["sentiment"])
               IN f.ok /\ \E i \in 1..Len(Val(f.value).items) :
                             Val(f.value).items[i].source = s
      [] OTHER -> FALSE

\* C30: data_sources only names sources that were used: a source is listed in
\* the state's data_sources, and in the final response, only if it returned
\* data for this request
C30_ListedSourcesReturnedData ==
    /\ \A s \in SourcesOf(state) \cup SourcesOf(final_state) : SourceReturnedData(s)
    /\ ~IsNone(response) =>
          \A s \in Range(Val(Val(response).data_sources)) : SourceReturnedData(s)

====
